---------------------------- MODULE Spec2Model ----------------------------
(***************************************************************************)
(* SFTP front-end over an object store (SFTPS3Server, src/server.js).      *)
(*                                                                         *)
(* Strings are sequences of one-character strings, so that startsWith,     *)
(* endsWith, split, toLowerCase, path.normalize and the regular-expression *)
(* replacements of the source are computed character by character.         *)
(***************************************************************************)
EXTENDS Integers, Sequences, FiniteSets, TLC

(* ------------------------------------------------------------------ *)
(* String primitives of the JavaScript runtime                         *)
(* ------------------------------------------------------------------ *)

StartsWith(s, p) == Len(p) <= Len(s) /\ SubSeq(s, 1, Len(p)) = p

EndsWith(s, p) == Len(p) <= Len(s) /\ SubSeq(s, Len(s) - Len(p) + 1, Len(s)) = p

Includes(s, p) == \E i \in 1..(Len(s) - Len(p) + 1) : SubSeq(s, i, i + Len(p) - 1) = p

\* s.substring(n): the characters from index n (0-based) on
Substring(s, n) == SubSeq(s, n + 1, Len(s))

UpperChars == <<"A","B","C","D","E","F","G","H","I","J","K","L","M",
                "N","O","P","Q","R","S","T","U","V","W","X","Y","Z">>

LowerChars == <<"a","b","c","d","e","f","g","h","i","j","k","l","m",
                "n","o","p","q","r","s","t","u","v","w","x","y","z">>

LowerChar(c) ==
  IF \E i \in 1..Len(UpperChars) : UpperChars[i] = c
  THEN LowerChars[CHOOSE i \in 1..Len(UpperChars) : UpperChars[i] = c]
  ELSE c

ToLowerCase(s) == [i \in 1..Len(s) |-> LowerChar(s[i])]

\* s.split(sep) for a one-character separator: "" splits to [""]
RECURSIVE SplitFrom(_, _, _, _)
SplitFrom(s, sep, i, cur) ==
  IF i > Len(s) THEN <<cur>>
  ELSE IF s[i] = sep THEN <<cur>> \o SplitFrom(s, sep, i + 1, <<>>)
  ELSE SplitFrom(s, sep, i + 1, Append(cur, s[i]))

Split(s, sep) == SplitFrom(s, sep, 1, <<>>)

\* parts.join(sep)
RECURSIVE Join(_, _)
Join(parts, sep) ==
  IF Len(parts) = 0 THEN <<>>
  ELSE IF Len(parts) = 1 THEN parts[1]
  ELSE parts[1] \o <<sep>> \o Join(Tail(parts), sep)

\* p.replace(/\\\\/g, '/'): every two consecutive backslashes become one slash
RECURSIVE ReplaceTwoBackslashes(_)
ReplaceTwoBackslashes(s) ==
  IF Len(s) = 0 THEN <<>>
  ELSE IF Len(s) >= 2 /\ s[1] = "\\" /\ s[2] = "\\"
       THEN <<"/">> \o ReplaceTwoBackslashes(SubSeq(s, 3, Len(s)))
       ELSE <<s[1]>> \o ReplaceTwoBackslashes(Tail(s))

\* p.replace(/\\.\\/g, '/'): backslash, any character, backslash becomes one slash
RECURSIVE ReplaceBackslashAnyBackslash(_)
ReplaceBackslashAnyBackslash(s) ==
  IF Len(s) = 0 THEN <<>>
  ELSE IF Len(s) >= 3 /\ s[1] = "\\" /\ s[3] = "\\"
       THEN <<"/">> \o ReplaceBackslashAnyBackslash(SubSeq(s, 4, Len(s)))
       ELSE <<s[1]>> \o ReplaceBackslashAnyBackslash(Tail(s))

\* p.replace(/\\/g, '/'): every backslash becomes a slash
ReplaceBackslashes(s) == [i \in 1..Len(s) |-> IF s[i] = "\\" THEN "/" ELSE s[i]]

\* normalizeString of Node's posix path module: drops empty and "." segments,
\* resolves ".." against the segment before it; above the root ".." is kept
\* only for a relative path
RECURSIVE NormalizeSegments(_, _, _)
NormalizeSegments(segs, acc, allowAboveRoot) ==
  IF Len(segs) = 0 THEN acc
  ELSE LET seg == segs[1]
           rest == Tail(segs)
       IN  IF seg = <<>> \/ seg = <<".">>
           THEN NormalizeSegments(rest, acc, allowAboveRoot)
           ELSE IF seg = <<".", ".">>
           THEN IF Len(acc) > 0 /\ acc[Len(acc)] # <<".", ".">>
                THEN NormalizeSegments(rest, SubSeq(acc, 1, Len(acc) - 1), allowAboveRoot)
                ELSE IF allowAboveRoot
                     THEN NormalizeSegments(rest, Append(acc, seg), allowAboveRoot)
                     ELSE NormalizeSegments(rest, acc, allowAboveRoot)
           ELSE NormalizeSegments(rest, Append(acc, seg), allowAboveRoot)

\* path.normalize(p) (posix)
PathNormalize(p) ==
  IF Len(p) = 0 THEN <<".">>
  ELSE LET isAbsolute == p[1] = "/"
           trailingSeparator == p[Len(p)] = "/"
           body == Join(NormalizeSegments(Split(p, "/"), <<>>, ~isAbsolute), "/")
       IN  IF Len(body) = 0
           THEN IF isAbsolute THEN <<"/">>
                ELSE IF trailingSeparator THEN <<".", "/">> ELSE <<".">>
           ELSE LET withSep == IF trailingSeparator THEN body \o <<"/">> ELSE body
                IN  IF isAbsolute THEN <<"/">> \o withSep ELSE withSep

\* path.dirname(p) (posix)
PathDirname(p) ==
  IF Len(p) = 0 THEN <<".">>
  ELSE LET ends == {i \in 2..Len(p) : p[i] = "/" /\ \E j \in (i + 1)..Len(p) : p[j] # "/"}
           end == CHOOSE i \in ends : \A j \in ends : j <= i
       IN  IF ends = {} THEN (IF p[1] = "/" THEN <<"/">> ELSE <<".">>)
           ELSE IF p[1] = "/" /\ end = 2 THEN <<"/", "/">>
           ELSE SubSeq(p, 1, end - 1)

\* the characters of the model in code-point order, for the order of a LIST
CodePoints == <<" ", ".", "/", "1", "2", "3">> \o UpperChars \o <<"\\", "_">> \o LowerChars

CharCode(c) == CHOOSE i \in 1..Len(CodePoints) : CodePoints[i] = c

\* a < b in the binary order of keys
RECURSIVE KeyLess(_, _)
KeyLess(a, b) ==
  IF Len(b) = 0 THEN FALSE
  ELSE IF Len(a) = 0 THEN TRUE
  ELSE IF a[1] = b[1] THEN KeyLess(Tail(a), Tail(b))
  ELSE CharCode(a[1]) < CharCode(b[1])

RECURSIVE SortKeys(_)
SortKeys(keys) ==
  IF keys = {} THEN <<>>
  ELSE LET least == CHOOSE k \in keys : \A o \in keys \ {k} : KeyLess(k, o)
       IN  <<least>> \o SortKeys(keys \ {least})

(* ------------------------------------------------------------------ *)
(* String literals of the program                                      *)
(* ------------------------------------------------------------------ *)

Root == <<"/">>
ledgers == <<"l","e","d","g","e","r","s">>
invoices == <<"i","n","v","o","i","c","e","s">>
dotDirectory == <<".","d","i","r","e","c","t","o","r","y">>
dotDir == <<".","d","i","r">>
dotPdf == <<".","p","d","f">>
strUser == <<"u","s","e","r">>
strBob == <<"b","o","b">>

\* '/ledgers', '/invoices', '/ledgers/', '/invoices/'
SlashLedgers == Root \o ledgers
SlashInvoices == Root \o invoices
SlashLedgersSlash == SlashLedgers \o Root
SlashInvoicesSlash == SlashInvoices \o Root
\* '/.directory', '/.dir'
DirectoryMarker == Root \o dotDirectory
LegacyMarker == Root \o dotDir

\* config.sftp.userBasePath (default 'users')
userBasePath == <<"u","s","e","r","s">>

\* config.sftp.defaultSubdirectories (default ['invoices', 'ledgers'])
defaultSubdirectories == <<invoices, ledgers>>

\* the user names that log in: 'user' has its own entry in allowedPaths,
\* 'bob' falls back to defaultPaths
Usernames == {strUser, strBob}

(* ------------------------------------------------------------------ *)
(* Access policy (config/access-control.js, and its second build)      *)
(* ------------------------------------------------------------------ *)

\* the two access-control modules of the repository
AccessControlModules == {"config", "build"}

\* allowedPaths[username] || defaultPaths
allowedPathsOf(module, username) ==
  IF module = "config"
  THEN IF username = strUser THEN <<Root, Root \o strUser>> ELSE <<Root>>
  ELSE IF username = strUser
       THEN <<Root, Root \o strUser, SlashLedgers, SlashInvoices>>
       ELSE <<Root, SlashLedgers, SlashInvoices>>

\* accessControl.isPathAllowed(username, path)
isPathAllowed(module, username, path) ==
  LET userPaths == allowedPathsOf(module, username)
      normalizedPath == IF StartsWith(path, Root) THEN path ELSE Root \o path
  IN  \/ \E i \in 1..Len(userPaths) : userPaths[i] = normalizedPath
      \/ \E i \in 1..Len(userPaths) :
            \/ StartsWith(normalizedPath, userPaths[i] \o Root)
            \/ normalizedPath = userPaths[i]
      \/ normalizedPath = Root \o username
      \/ StartsWith(normalizedPath, Root \o username \o Root)
      \/ /\ module = "build"
         /\ \/ normalizedPath = SlashLedgers
            \/ normalizedPath = SlashInvoices
            \/ StartsWith(normalizedPath, SlashLedgersSlash)
            \/ StartsWith(normalizedPath, SlashInvoicesSlash)
      \/ /\ normalizedPath # Root
         /\ StartsWith(normalizedPath, Root)
         /\ Len(Split(normalizedPath, "/")) = 2

\* SFTPS3Server._isFileTypeAllowed(filename)
isFileTypeAllowed(filename) ==
  LET lowerFilename == ToLowerCase(filename)
  IN  IF \/ StartsWith(lowerFilename, SlashLedgersSlash)
         \/ StartsWith(lowerFilename, SlashInvoicesSlash)
         \/ lowerFilename = SlashLedgers
         \/ lowerFilename = SlashInvoices
      THEN IF ~EndsWith(lowerFilename, dotPdf) THEN FALSE
           ELSE IF \/ lowerFilename = SlashLedgers
                   \/ lowerFilename = SlashInvoices
                   \/ lowerFilename = SlashLedgersSlash
                   \/ lowerFilename = SlashInvoicesSlash
                   \/ EndsWith(lowerFilename, SlashLedgersSlash)
                   \/ EndsWith(lowerFilename, SlashInvoicesSlash)
                THEN FALSE
                ELSE TRUE
      ELSE TRUE

\* the mapping as it would be if every user shared the base directory: the
\* variant the formula of C20 has to tell apart from _mapKey
mapKeyShared(userPath, filename) ==
  LET p == ReplaceBackslashes(PathNormalize(ReplaceBackslashes(filename)))
  IN  userBasePath \o (IF StartsWith(p, Root) THEN p ELSE Root \o p)

\* SFTPS3Server._mapKey(userPath, filename)
mapKey(userPath, filename) ==
  LET base == IF userPath = <<>> THEN userBasePath ELSE userPath
      p1 == ReplaceTwoBackslashes(filename)
      p2 == ReplaceBackslashAnyBackslash(p1)
      p3 == ReplaceBackslashes(p2)
      p4 == ReplaceBackslashes(PathNormalize(p3))
      p == IF StartsWith(p4, Root) THEN p4 ELSE Root \o p4
  IN  base \o p

\* the test that guards REMOVE (on filePath) and RENAME (on oldPath)
isProtectedStructure(filePath) ==
  \/ filePath = SlashLedgers
  \/ filePath = SlashInvoices
  \/ filePath = Root \o strUser \o SlashLedgers
  \/ filePath = Root \o strUser \o SlashInvoices
  \/ EndsWith(filePath, SlashLedgers \o DirectoryMarker)
  \/ EndsWith(filePath, SlashInvoices \o DirectoryMarker)
  \/ EndsWith(filePath, Root \o strUser \o SlashLedgers \o DirectoryMarker)
  \/ EndsWith(filePath, Root \o strUser \o SlashInvoices \o DirectoryMarker)

\* authenticatedUser.path: `${config.sftp.userBasePath}/${ctx.username}`
userPathOf(username) == userBasePath \o Root \o username

\* the key of a default subdirectory's marker:
\* `${basePath}/${username}/${dirName}/.directory`
subDirKey(username, dirName) ==
  userBasePath \o Root \o username \o Root \o dirName \o DirectoryMarker

(* ------------------------------------------------------------------ *)
(* Bounds and input sets                                               *)
(* ------------------------------------------------------------------ *)

\* connections the server accepts in one run
MaxConns == 1
\* handles one SFTP session allocates (OPEN and OPENDIR stop at this count)
MaxHandles == 2
\* requests of one session that wait for the store at the same time
MaxPending == 1
\* WRITE requests accepted on one write handle
MaxWrites == 2
\* requests one SFTP session sends
MaxRequests == 2
\* clock steps
MaxTicks == 1
\* idle timers that exist at the same time
MaxTimers == 2

Conns == 1..MaxConns

\* setTimeout(..., 60000) of _trackUserActivity
IdleTimeoutMs == 60000
\* timeSinceUpload < 10000 of _openDirectory
RecentUploadMs == 10000

NoUser == <<>>
NoReq == [verb |-> "none"]

\* SFTP_STATUS_CODE
StatusCodes == {"OK", "EOF", "NO_SUCH_FILE", "PERMISSION_DENIED", "FAILURE",
                "BAD_MESSAGE", "NO_CONNECTION", "CONNECTION_LOST", "OP_UNSUPPORTED"}

\* SFTP_OPEN_MODE: a flags word is the set of the bits that are set in it
OpenModes == {"READ", "WRITE", "APPEND", "CREATE", "TRUNCATE", "EXCLUDE"}

\* the credential registered for every user, and a wrong one
strPw == <<"p","w">>
strBad == <<"n","o">>
authPrefix == <<"a","u","t","h","/">>

\* `auth/${username}_${password}`
authKey(username, password) == authPrefix \o username \o <<"_">> \o password

\* `Directory marker for ${dirName} folder`
markerBody(dirName) ==
  <<"D","i","r","e","c","t","o","r","y"," ","m","a","r","k","e","r"," ","f","o","r"," ">>
    \o dirName \o <<" ","f","o","l","d","e","r">>

(* ------------------------------------------------------------------ *)
(* State                                                               *)
(* ------------------------------------------------------------------ *)

VARIABLES
  accessControl,    \* the access-control module the server loaded
  createDefaultSubdirs, \* config.sftp.createDefaultSubdirs
  window,           \* the requests a client keeps in flight without an answer
  store,            \* the bucket: key -> [body, by]; by = who wrote the object
  lastUploadTime,   \* this.lastUploadTime
  userConnections,  \* this.userConnections: username -> [lastActivity, connectionTime]
  idleTimers,       \* this.idleTimers: username -> timer id
  timers,           \* the armed timeouts of the event loop: [id, user, due]
  now,              \* Date.now()
  ticks,            \* clock steps taken
  ssh,              \* this.ssh: "null" or "server"
  clients,          \* per connection: phase, authenticatedUser, openFiles, openDirs, handleCount
  reqs,             \* per connection: the requests that wait for the store or a timer
  uploads,          \* the _uploadToS3 task of every write handle: <<conn, handleId>> -> task
  done,             \* the request answered by the last step (NoReq when none was)
  step,             \* the handler the last step ran: [name, conn]
  emitted,          \* the events the last step emitted, in order
  reqid             \* per connection: the requests the session has received

vars == <<accessControl, createDefaultSubdirs, window,
          store, lastUploadTime, userConnections, idleTimers, timers,
          now, ticks, ssh, clients, reqs, uploads, done, step, emitted, reqid>>

\* a Map as a function: has, get, set, delete
Has(m, k) == k \in DOMAIN m
MapSet(m, k, v) == [x \in DOMAIN m \cup {k} |-> IF x = k THEN v ELSE m[x]]
MapDelete(m, k) == [x \in DOMAIN m \ {k} |-> m[x]]
EmptyMap == [x \in {} |-> x]

\* a call of the store
Call(op, key) == [op |-> op, key |-> key]

Event(name, username, path) == [name |-> name, username |-> username, path |-> path]

\* who wrote an object: the registry, the provisioning, or the upload of a handle
Origin(kind, c, h) == [kind |-> kind, conn |-> c, handle |-> h]

\* the bucket before the server starts: the registered credentials
InitStore ==
  [k \in {authKey(u, strPw) : u \in Usernames} |-> [body |-> <<"1">>, by |-> Origin("registry", 0, 0)]]

InitClient ==
  [phase |-> "none", user |-> NoUser, openFiles |-> EmptyMap, openDirs |-> EmptyMap,
   handleCount |-> 0]

\* the state after `new SFTPS3Server(s3Client, bucketName)`
Init ==
  /\ accessControl \in AccessControlModules
  /\ createDefaultSubdirs = TRUE
  /\ window = MaxPending
  /\ store = InitStore
  /\ lastUploadTime = 0
  /\ userConnections = EmptyMap
  /\ idleTimers = EmptyMap
  /\ timers = {}
  /\ now = IdleTimeoutMs
  /\ ticks = 0
  /\ ssh = "null"
  /\ clients = [c \in Conns |-> InitClient]
  /\ reqs = [c \in Conns |-> <<>>]
  /\ uploads = EmptyMap
  /\ done = NoReq
  /\ step = [name |-> "constructor", conn |-> 0]
  /\ emitted = <<>>
  /\ reqid = [c \in Conns |-> 0]

(* ------------------------------------------------------------------ *)
(* Session and idle manager                                            *)
(* ------------------------------------------------------------------ *)

\* clearTimeout(id)
ClearTimeout(ts, id) == {t \in ts : t.id # id}

\* the timers left armed once _trackUserActivity has cleared the user's one
TimersAfterClear(username) ==
  IF Has(idleTimers, username) THEN ClearTimeout(timers, idleTimers[username]) ELSE timers

\* setTimeout returns a timer that no armed timeout and no other map entry names
FreshTimer(username) ==
  LET used == {t.id : t \in TimersAfterClear(username)}
                \cup {idleTimers[u] : u \in DOMAIN idleTimers \ {username}}
  IN  CHOOSE i \in 1..(MaxTimers + 1) : i \notin used /\ \A j \in 1..(i - 1) : j \in used

CanArm(username) == username = NoUser \/ FreshTimer(username) <= MaxTimers

\* _trackUserActivity(username): the three maps after the call
TrackedTimers(username) ==
  TimersAfterClear(username)
    \cup {[id |-> FreshTimer(username), user |-> username, due |-> now + IdleTimeoutMs]}

TrackedIdleTimers(username) == MapSet(idleTimers, username, FreshTimer(username))

TrackedConnections(username) ==
  MapSet(userConnections, username,
         [lastActivity |-> now,
          connectionTime |-> IF Has(userConnections, username)
                                  /\ userConnections[username].connectionTime # 0
                             THEN userConnections[username].connectionTime
                             ELSE now])

trackUserActivity(username) ==
  IF username = NoUser
  THEN UNCHANGED <<timers, idleTimers, userConnections>>
  ELSE /\ timers' = TrackedTimers(username)
       /\ idleTimers' = TrackedIdleTimers(username)
       /\ userConnections' = TrackedConnections(username)

NoActivity == UNCHANGED <<timers, idleTimers, userConnections>>

\* what every handler leaves alone unless it says otherwise
Quiet(name, c) ==
  /\ step' = [name |-> name, conn |-> c]
  /\ done' = NoReq

\* _cleanupUserConnection(username)
cleanupUserConnection(username) ==
  IF username = NoUser
  THEN UNCHANGED <<timers, idleTimers, userConnections>>
  ELSE /\ timers' = TimersAfterClear(username)
       /\ idleTimers' = MapDelete(idleTimers, username)
       /\ userConnections' = MapDelete(userConnections, username)

\* _handleClientDisconnect(username, eventType)
handleClientDisconnect(username, eventType) ==
  IF username = NoUser
  THEN /\ UNCHANGED <<timers, idleTimers, userConnections>>
       /\ emitted' = <<>>
  ELSE /\ cleanupUserConnection(username)
       /\ emitted' = <<Event("client-disconnected", username, eventType)>>

\* listen(port, bindAddress, callback)
Listen ==
  /\ ssh = "null"
  /\ ssh' = "server"
  /\ Quiet("listen", 0)
  /\ emitted' = <<>>
  /\ UNCHANGED <<reqid, accessControl, createDefaultSubdirs,
                 window, store, lastUploadTime, userConnections, idleTimers,
                 timers, now, ticks, clients, reqs, uploads>>

\* this.ssh.on('connection', client => ...)
Connection(c) ==
  /\ ssh = "server"
  /\ clients[c].phase = "none"
  /\ clients' = [clients EXCEPT ![c].phase = "connected"]
  /\ Quiet("connection", c)
  /\ emitted' = <<>>
  /\ UNCHANGED <<reqid, accessControl, createDefaultSubdirs,
                 window, store, lastUploadTime, userConnections, idleTimers,
                 timers, now, ticks, ssh, reqs, uploads>>

\* _createDefaultSubdirectories(username): the bucket after the first n marker
\* PUTs of the loop succeeded (the first failing PUT ends the loop)
RECURSIVE StoreWithMarkers(_, _, _)
StoreWithMarkers(st, username, n) ==
  IF n = 0 THEN st
  ELSE MapSet(StoreWithMarkers(st, username, n - 1),
              subDirKey(username, defaultSubdirectories[n]),
              [body |-> markerBody(defaultSubdirectories[n]), by |-> Origin("provision", 0, 0)])

\* _authenticateUser as it would be if it accepted whenever the call of the
\* store did not fail, whether or not the object exists
authenticateUserAnyKey(username, password, headOk) ==
  /\ username # <<>>
  /\ password # <<>>
  /\ headOk

\* _authenticateUser(username, password); headOk: the HEAD call did not fail
\* with an error other than NotFound
authenticateUser(username, password, headOk) ==
  /\ username # <<>>
  /\ password # <<>>
  /\ headOk
  /\ Has(store, authKey(username, password))

\* how the HEAD of an attempt ends: "none" when it is not sent, "error" when
\* the call fails with an error other than NotFound
headOutcome(method, username, password, headOk) ==
  IF method # "password" \/ username = <<>> \/ password = <<>> THEN "none"
  ELSE IF ~headOk THEN "error"
  ELSE IF Has(store, authKey(username, password)) THEN "ok"
  ELSE "NotFound"

\* the store calls of an authentication attempt: the HEAD of _authenticateUser
\* when both credentials are present, then the marker PUTs of
\* _createDefaultSubdirectories: those that succeeded and the one that failed
authenticationCalls(method, username, password, accepted, nPut) ==
  LET names == defaultSubdirectories
      sent == IF nPut < Len(names) THEN nPut + 1 ELSE Len(names)
  IN  (IF method = "password" /\ username # <<>> /\ password # <<>>
       THEN <<Call("HEAD", authKey(username, password))>> ELSE <<>>)
      \o (IF accepted /\ createDefaultSubdirs
          THEN [i \in 1..sent |-> Call("PUT", subDirKey(username, names[i]))]
          ELSE <<>>)

\* client.on('authentication', ctx => ...); done records the attempt and its
\* answer, ctx.accept() or ctx.reject(['password'], false)
Authentication(c, method, username, password, headOk, nPut) ==
  LET accepted == method = "password" /\ authenticateUser(username, password, headOk)
  IN  /\ clients[c].phase = "connected"
      /\ IF accepted
         THEN /\ store' = IF createDefaultSubdirs
                          THEN StoreWithMarkers(store, username, nPut)
                          ELSE store
              /\ clients' = [clients EXCEPT ![c].phase = "authenticated",
                                            ![c].user = username]
         ELSE UNCHANGED <<store, clients>>
      /\ step' = [name |-> "authentication", conn |-> c]
      /\ done' = [verb |-> "authentication", conn |-> c, method |-> method,
                  username |-> username, password |-> password,
                  head |-> headOutcome(method, username, password, headOk),
                  status |-> IF accepted THEN "accept" ELSE "reject",
                  calls |-> authenticationCalls(method, username, password, accepted, nPut)]
      /\ emitted' = <<>>
      /\ UNCHANGED <<reqid, accessControl, createDefaultSubdirs, window, lastUploadTime,
                     userConnections, idleTimers, timers, now, ticks, ssh, reqs, uploads>>

\* client.on('ready', ...)
Ready(c) ==
  /\ clients[c].phase = "authenticated"
  /\ CanArm(clients[c].user)
  /\ trackUserActivity(clients[c].user)
  /\ clients' = [clients EXCEPT ![c].phase = "ready"]
  /\ Quiet("ready", c)
  /\ emitted' = <<Event("login", clients[c].user, <<>>)>>
  /\ UNCHANGED <<reqid, accessControl, createDefaultSubdirs,
                 window, store, lastUploadTime, now, ticks, ssh, reqs, uploads>>

\* client.on('session') and session.on('sftp'): _setupSFTPHandlers
Sftp(c) ==
  /\ clients[c].phase = "ready"
  /\ CanArm(clients[c].user)
  /\ trackUserActivity(clients[c].user)
  /\ clients' = [clients EXCEPT ![c].phase = "sftp"]
  /\ Quiet("sftp", c)
  /\ emitted' = <<>>
  /\ UNCHANGED <<reqid, accessControl, createDefaultSubdirs,
                 window, store, lastUploadTime, now, ticks, ssh, reqs, uploads>>

\* session.on('close'), client.on('end'), client.on('close'), client.on('error')
Disconnect(c, eventType) ==
  /\ \/ eventType = "session-close" /\ clients[c].phase = "sftp"
     \/ eventType = "end"
          /\ clients[c].phase \in {"connected", "authenticated", "ready", "sftp", "session-closed"}
     \/ eventType = "error"
          /\ clients[c].phase \in {"connected", "authenticated", "ready", "sftp", "session-closed"}
     \/ eventType = "close"
          /\ clients[c].phase \in {"connected", "authenticated", "ready", "sftp",
                                   "session-closed", "ended"}
  /\ handleClientDisconnect(clients[c].user, eventType)
  /\ clients' = [clients EXCEPT ![c].phase =
                   CASE eventType = "session-close" -> "session-closed"
                     [] eventType = "close" -> "closed"
                     [] OTHER -> "ended"]
  /\ Quiet(eventType, c)
  /\ UNCHANGED <<reqid, accessControl, createDefaultSubdirs,
                 window, store, lastUploadTime, now, ticks, ssh, reqs, uploads>>

\* the timeout armed by _trackUserActivity fires: _handleIdleConnection(username)
IdleTimerFires(t) ==
  /\ t \in timers
  /\ now >= t.due
  /\ timers' = timers \ {t}
  /\ idleTimers' = MapDelete(idleTimers, t.user)
  /\ emitted' = <<Event("user-idle", t.user, <<>>)>>
  /\ Quiet("idle", 0)
  /\ UNCHANGED <<reqid, accessControl, createDefaultSubdirs,
                 window, store, lastUploadTime, userConnections, now, ticks,
                 ssh, clients, reqs, uploads>>

\* forceDisconnectUser(username): no client object carries authenticatedUser (it
\* is a variable of the connection handler), so the loop over this.ssh.clients
\* closes nothing and the call ends in _cleanupUserConnection
forceDisconnectUser(username) ==
  /\ username # NoUser
  /\ cleanupUserConnection(username)
  /\ Quiet("forceDisconnectUser", 0)
  /\ emitted' = <<>>
  /\ UNCHANGED <<reqid, accessControl, createDefaultSubdirs,
                 window, store, lastUploadTime, now, ticks, ssh, clients,
                 reqs, uploads>>

\* disconnectAllUsers(): the maps are cleared, the timeouts are not
disconnectAllUsers ==
  /\ idleTimers' = EmptyMap
  /\ userConnections' = EmptyMap
  /\ Quiet("disconnectAllUsers", 0)
  /\ emitted' = <<>>
  /\ UNCHANGED <<reqid, accessControl, createDefaultSubdirs,
                 window, store, lastUploadTime, timers, now, ticks, ssh,
                 clients, reqs, uploads>>

\* stop(cb)
stop ==
  /\ timers' = {t \in timers : t.id \notin {idleTimers[u] : u \in DOMAIN idleTimers}}
  /\ idleTimers' = EmptyMap
  /\ userConnections' = EmptyMap
  /\ ssh' = "null"
  /\ Quiet("stop", 0)
  /\ emitted' = <<>>
  /\ UNCHANGED <<reqid, accessControl, createDefaultSubdirs,
                 window, store, lastUploadTime, now, ticks, clients, reqs, uploads>>

\* time passes
Tick(d) ==
  /\ ticks < MaxTicks
  /\ ticks' = ticks + 1
  /\ now' = now + d
  /\ Quiet("tick", 0)
  /\ emitted' = <<>>
  /\ UNCHANGED <<reqid, accessControl, createDefaultSubdirs,
                 window, store, lastUploadTime, userConnections, idleTimers,
                 timers, ssh, clients, reqs, uploads>>

(* ------------------------------------------------------------------ *)
(* Request router: OPEN, READ, WRITE, CLOSE and the upload pipeline    *)
(* ------------------------------------------------------------------ *)

\* the task _uploadToS3 starts for a write handle (it stays on record after the
\* handle is closed; handle ids are not reused): the PassThrough stream, the
\* chunks its 'data' listener collected, and where the 'end' listener stands;
\* wrote is what the accepted WRITE requests carried ([offset, data], in
\* receipt order), puts the PUTs issued, body and contentLength those of the
\* PUT, at the time the PUT completed
UploadTask(fullname, username) ==
  [fullname |-> fullname, username |-> username, chunks |-> <<>>, pc |-> "open",
   body |-> <<>>, contentLength |-> 0, wrote |-> <<>>, puts |-> 0, result |-> "none",
   at |-> 0]

NoUpload == [UploadTask(<<>>, <<>>) EXCEPT !.pc = "none"]

\* a request as the handler sees it; calls lists the store calls issued for it;
\* upload (of a CLOSE) is the upload task of the handle, seen (of a READ) who
\* wrote the object the handle was opened on, first whether the READ is the
\* first on its handle, storeError whether a store call of the request failed
Request(c, verb) ==
  [verb |-> verb, conn |-> c, reqid |-> reqid[c], path |-> <<>>, newPath |-> <<>>, flags |-> {},
   handle |-> 0 - 1, offset |-> 0, length |-> 0, count |-> 0, data |-> <<>>,
   filename |-> <<>>, fullname |-> <<>>, fullnameNew |-> <<>>, handleId |-> 0 - 1,
   isRoot |-> FALSE, pc |-> "received", calls |-> <<>>,
   status |-> "none", reply |-> <<>>, at |-> now, upload |-> NoUpload,
   seen |-> Origin("none", 0, 0), first |-> FALSE, storeError |-> FALSE]

Answered(r, status, reply) == [r EXCEPT !.status = status, !.reply = reply, !.pc = "answered"]

RemoveAt(seq, i) == SubSeq(seq, 1, i - 1) \o SubSeq(seq, i + 1, Len(seq))

Serving(c) == clients[c].phase = "sftp"

\* the session can receive a request
Receiving(c) == Serving(c)

\* the session has sent fewer than n requests
Within(n, c) == reqid[c] < n

\* the session receives its next request
NextRequest(c) == reqid' = [reqid EXCEPT ![c] = @ + 1]

\* the keys a ListObjectsV2 with this prefix returns
ListKeys(prefix) == {k \in DOMAIN store : StartsWith(k, prefix)}

\* _checkIfDirectory(fullname); an error of the LIST (and the TypeError on a
\* missing Contents) is caught and answered false
checkIfDirectory(fullname, listOk) ==
  LET keys == ListKeys(fullname)
  IN  /\ listOk
      /\ \/ (fullname \o DirectoryMarker) \in keys
         \/ (fullname \o LegacyMarker) \in keys
         \/ \E k \in keys : k # fullname /\ StartsWith(k, fullname \o Root)

\* a state of openFiles; seen: who wrote the object when the handle was opened,
\* touched: a READ was received on the handle
FileState(flags, filename, fullname, size, hasStream) ==
  [flags |-> flags, filename |-> filename, fullname |-> fullname, size |-> size,
   read |-> FALSE, hasStream |-> hasStream, uploadComplete |-> FALSE,
   uploadError |-> "null", seen |-> Origin("none", 0, 0), touched |-> FALSE]

RECURSIVE Concat(_)
\* Buffer.concat(chunks)
Concat(chunks) == IF Len(chunks) = 0 THEN <<>> ELSE chunks[1] \o Concat(Tail(chunks))

\* stream.write as it would be if a write at offset 0 started the buffer again:
\* the variant the formula of C5 has to tell apart from the handler
streamWriteRestart(chunks, offset, data) ==
  IF offset = 0 THEN <<data>> ELSE Append(chunks, data)

\* stream.write(Buffer.from(data)) followed by the 'data' listener: chunks.push(chunk)
streamWrite(chunks, offset, data) == Append(chunks, data)

\* a counter that stays where it is: the variant the formula of C16 has to tell
\* apart from handleCount++
NextHandleStuck(count) == count

\* handleCount++ : the counter after a handle was taken from it
NextHandle(count) == count + 1

\* sftp.on('OPEN', (reqid, filename, flags, attrs) => ...)
OPEN(c, path, flags) ==
  LET user == clients[c].user
      filename == IF EndsWith(path, <<"\\">>) \/ EndsWith(path, Root)
                  THEN SubSeq(path, 1, Len(path) - 1) ELSE path
      r == [Request(c, "OPEN") EXCEPT !.path = path, !.flags = flags, !.filename = filename]
      fullname == mapKey(userPathOf(user), filename)
  IN  /\ Receiving(c)
      /\ CanArm(user)
      /\ trackUserActivity(user)
      /\ IF ~isPathAllowed(accessControl, user, filename)
         THEN /\ done' = Answered(r, "PERMISSION_DENIED", <<>>)
              /\ UNCHANGED reqs
         ELSE IF "WRITE" \in flags /\ ~isFileTypeAllowed(filename)
         THEN /\ done' = Answered(r, "PERMISSION_DENIED", <<>>)
              /\ UNCHANGED reqs
         ELSE /\ Len(reqs[c]) < window
              /\ clients[c].handleCount
                   + Cardinality({i \in 1..Len(reqs[c]) : reqs[c][i].pc = "checkIfDirectory"})
                   < MaxHandles
              /\ reqs' = [reqs EXCEPT ![c] = Append(@,
                            [r EXCEPT !.fullname = fullname, !.pc = "checkIfDirectory",
                                      !.calls = <<Call("LIST", fullname)>>])]
              /\ done' = NoReq
      /\ step' = [name |-> "OPEN", conn |-> c]
      /\ emitted' = <<>>
      /\ NextRequest(c)
      /\ UNCHANGED <<accessControl, createDefaultSubdirs,
                     window, store, lastUploadTime, now, ticks, ssh, clients, uploads>>

\* the LIST of _checkIfDirectory resolves: the .then of the OPEN handler
OpenChecked(c, i, listOk) ==
  LET r == [reqs[c][i] EXCEPT !.storeError = ~listOk]
      h == clients[c].handleCount
  IN  /\ i \in 1..Len(reqs[c])
      /\ r.pc = "checkIfDirectory"
      /\ IF checkIfDirectory(r.fullname, listOk)
         THEN /\ done' = Answered(r, "NO_SUCH_FILE", <<>>)
              /\ reqs' = [reqs EXCEPT ![c] = RemoveAt(@, i)]
              /\ UNCHANGED <<clients, uploads>>
         ELSE IF "READ" \in r.flags
         THEN \* _handleFileOpenRead(..., handleCount++, ...) up to its LIST
              /\ clients' = [clients EXCEPT ![c].handleCount = NextHandle(h)]
              /\ reqs' = [reqs EXCEPT ![c][i] =
                            [r EXCEPT !.handleId = h, !.pc = "openRead",
                                      !.calls = Append(@, Call("LIST", r.fullname))]]
              /\ done' = NoReq
              /\ UNCHANGED uploads
         ELSE IF "WRITE" \in r.flags
         THEN \* _handleFileOpenWrite(..., handleCount++, ...)
              /\ clients' = [clients EXCEPT
                              ![c].handleCount = NextHandle(h),
                              ![c].openFiles = MapSet(@, h,
                                 FileState(r.flags, r.filename, r.fullname, 0, TRUE))]
              /\ uploads' = MapSet(uploads, <<c, h>>,
                                   UploadTask(r.fullname, clients[c].user))
              /\ done' = Answered([r EXCEPT !.handleId = h], "HANDLE", <<h>>)
              /\ reqs' = [reqs EXCEPT ![c] = RemoveAt(@, i)]
         ELSE /\ done' = Answered(r, "OP_UNSUPPORTED", <<>>)
              /\ reqs' = [reqs EXCEPT ![c] = RemoveAt(@, i)]
              /\ UNCHANGED <<clients, uploads>>
      /\ step' = [name |-> "OpenChecked", conn |-> c]
      /\ emitted' = <<>>
      /\ UNCHANGED <<reqid, accessControl, createDefaultSubdirs,
                     window, store, lastUploadTime, userConnections, idleTimers,
                     timers, now, ticks, ssh>>

\* the LIST of _handleFileOpenRead resolves; an empty result comes back either
\* with Contents missing (find on undefined throws, caught: FAILURE) or as []
OpenReadListed(c, i, listOk, contentsMissing) ==
  LET r == reqs[c][i]
      keys == ListKeys(r.fullname)
  IN  /\ i \in 1..Len(reqs[c])
      /\ r.pc = "openRead"
      /\ IF ~listOk
         THEN /\ done' = Answered([r EXCEPT !.storeError = TRUE], "FAILURE", <<>>)
              /\ UNCHANGED clients
         ELSE IF keys = {} /\ contentsMissing
         THEN /\ done' = Answered(r, "FAILURE", <<>>)
              /\ UNCHANGED clients
         ELSE IF r.fullname \notin keys
         THEN /\ done' = Answered(r, "NO_SUCH_FILE", <<>>)
              /\ UNCHANGED clients
         ELSE /\ clients' = [clients EXCEPT ![c].openFiles = MapSet(@, r.handleId,
                               [FileState(r.flags, r.filename, r.fullname,
                                          Len(store[r.fullname].body), FALSE)
                                  EXCEPT !.seen = store[r.fullname].by])]
              /\ done' = Answered(r, "HANDLE", <<r.handleId>>)
      /\ reqs' = [reqs EXCEPT ![c] = RemoveAt(@, i)]
      /\ step' = [name |-> "OpenReadListed", conn |-> c]
      /\ emitted' = <<>>
      /\ UNCHANGED <<reqid, accessControl, createDefaultSubdirs,
                     window, store, lastUploadTime, userConnections, idleTimers,
                     timers, now, ticks, ssh, uploads>>

\* the GetObjectCommand of _readFileFromS3: Range `bytes=${first}-${last}`
GetRange(key, first, last) == [op |-> "GET", key |-> key, first |-> first, last |-> last]

\* the READ handler as it would be if it asked for the length the client
\* named: the variant the formula of C26 has to tell apart from the handler
readLengthUncut(offset, length, size) == length

\* the cut of the READ handler as it would be with the last byte left out:
\* the variant the formula of C8 has to tell apart from the handler
readLengthShort(offset, length, size) ==
  IF offset + length > size THEN size - offset - 1 ELSE length

\* the length the READ handler asks the store for: cut at the size of the file
readLength(offset, length, size) ==
  IF offset + length > size THEN size - offset ELSE length

\* sftp.on('READ', (reqid, handle, offset, length) => ...); handle -1 stands for
\* a handle that is not 4 bytes long
READ(c, handle, offset, lengthIn) ==
  LET user == clients[c].user
      r == [Request(c, "READ") EXCEPT !.handle = handle, !.offset = offset,
                                      !.length = lengthIn]
      files == clients[c].openFiles
      state == files[handle]
      length == readLength(offset, lengthIn, state.size)
  IN  /\ Receiving(c)
      /\ CanArm(user)
      /\ trackUserActivity(user)
      /\ IF handle < 0 \/ ~Has(files, handle) \/ "READ" \notin state.flags
         THEN /\ done' = Answered(r, "FAILURE", <<>>)
              /\ UNCHANGED <<reqs, clients>>
         ELSE IF state.read \/ offset >= state.size \/ length = 0
         THEN /\ done' = Answered([r EXCEPT !.first = ~state.touched, !.seen = state.seen],
                                  "EOF", <<>>)
              /\ clients' = [clients EXCEPT ![c].openFiles[handle].touched = TRUE]
              /\ UNCHANGED reqs
         ELSE /\ Len(reqs[c]) < window
              /\ clients' = [clients EXCEPT
                              ![c].openFiles[handle].read = (offset + length >= state.size),
                              ![c].openFiles[handle].touched = TRUE]
              /\ reqs' = [reqs EXCEPT ![c] = Append(@,
                            [r EXCEPT !.count = length, !.fullname = state.fullname,
                                      !.first = ~state.touched, !.seen = state.seen,
                                      !.pc = "readFile",
                                      !.calls = <<GetRange(state.fullname, offset,
                                                           offset + length - 1)>>])]
              /\ done' = NoReq
      /\ step' = [name |-> "READ", conn |-> c]
      /\ emitted' = <<>>
      /\ NextRequest(c)
      /\ UNCHANGED <<accessControl, createDefaultSubdirs,
                     window, store, lastUploadTime, now, ticks, ssh, uploads>>

\* the ranged GET of _readFileFromS3 resolves
ReadGot(c, i, getOk) ==
  LET r == reqs[c][i]
      body == store[r.fullname].body
      buffer == SubSeq(body, r.offset + 1,
                       IF r.offset + r.count <= Len(body) THEN r.offset + r.count
                       ELSE Len(body))
  IN  /\ i \in 1..Len(reqs[c])
      /\ r.pc = "readFile"
      /\ IF ~getOk
         THEN done' = Answered([r EXCEPT !.storeError = TRUE], "FAILURE", <<>>)
         ELSE IF ~Has(store, r.fullname) \/ r.offset >= Len(body)
         THEN done' = Answered(r, "FAILURE", <<>>)
         ELSE IF Len(buffer) = 0
         THEN done' = Answered(r, "FAILURE", <<>>)
         ELSE done' = Answered(r, "DATA", buffer)
      /\ reqs' = [reqs EXCEPT ![c] = RemoveAt(@, i)]
      /\ step' = [name |-> "ReadGot", conn |-> c]
      /\ emitted' = <<>>
      /\ UNCHANGED <<reqid, accessControl, createDefaultSubdirs,
                     window, store, lastUploadTime, userConnections, idleTimers,
                     timers, now, ticks, ssh, clients, uploads>>

\* WRITE as it would be with one handle table for the whole server (the table
\* of the first session): the variant the formula of C34 has to tell apart
WriteFirstSession(c, handle, offset, data, destroys) ==
  LET user == clients[c].user
      r == [Request(c, "WRITE") EXCEPT !.handle = handle, !.offset = offset, !.data = data]
      files == clients[1].openFiles
      state == files[handle]
      task == uploads[<<1, handle>>]
  IN  /\ Receiving(c)
      /\ CanArm(user)
      /\ trackUserActivity(user)
      /\ IF handle < 0 \/ ~Has(files, handle) \/ "WRITE" \notin state.flags
         THEN /\ done' = Answered(r, "FAILURE", <<>>)
              /\ emitted' = <<>>
              /\ UNCHANGED uploads
         ELSE IF ~state.hasStream
         THEN \* state.stream is undefined: the handler throws
              /\ done' = [r EXCEPT !.pc = "exception"]
              /\ emitted' = <<>>
              /\ UNCHANGED uploads
         ELSE IF task.pc # "open"
         THEN /\ done' = Answered(r, "FAILURE", <<>>)
              /\ emitted' = <<Event("upload-error", user, task.fullname)>>
              /\ uploads' = IF task.pc = "ending" /\ destroys
                            THEN [uploads EXCEPT ![<<1, handle>>].pc = "destroyed"]
                            ELSE uploads
         ELSE /\ Len(task.chunks) < MaxWrites
              /\ uploads' = [uploads EXCEPT
                               ![<<1, handle>>].chunks = streamWrite(@, offset, data),
                               ![<<1, handle>>].wrote =
                                  Append(@, [offset |-> offset, data |-> data])]
              /\ done' = Answered(r, "OK", <<>>)
              /\ emitted' = <<>>
      /\ step' = [name |-> "WRITE", conn |-> c]
      /\ NextRequest(c)
      /\ UNCHANGED <<accessControl, createDefaultSubdirs,
                     window, store, lastUploadTime, now, ticks, ssh, clients, reqs>>

\* sftp.on('WRITE', (reqid, handle, offset, data) => ...); a write after
\* stream.end() fails, raises the stream's 'error' event, and may destroy the
\* stream before its 'end' event was delivered (destroys)
WRITE(c, handle, offset, data, destroys) ==
  LET user == clients[c].user
      r == [Request(c, "WRITE") EXCEPT !.handle = handle, !.offset = offset, !.data = data]
      files == clients[c].openFiles
      state == files[handle]
      task == uploads[<<c, handle>>]
  IN  /\ Receiving(c)
      /\ CanArm(user)
      /\ trackUserActivity(user)
      /\ IF handle < 0 \/ ~Has(files, handle) \/ "WRITE" \notin state.flags
         THEN /\ done' = Answered(r, "FAILURE", <<>>)
              /\ emitted' = <<>>
              /\ UNCHANGED uploads
         ELSE IF ~state.hasStream
         THEN \* state.stream is undefined: the handler throws
              /\ done' = [r EXCEPT !.pc = "exception"]
              /\ emitted' = <<>>
              /\ UNCHANGED uploads
         ELSE IF task.pc # "open"
         THEN /\ done' = Answered(r, "FAILURE", <<>>)
              /\ emitted' = <<Event("upload-error", user, task.fullname)>>
              /\ uploads' = IF task.pc = "ending" /\ destroys
                            THEN [uploads EXCEPT ![<<c, handle>>].pc = "destroyed"]
                            ELSE uploads
         ELSE /\ Len(task.chunks) < MaxWrites
              /\ uploads' = [uploads EXCEPT
                               ![<<c, handle>>].chunks = streamWrite(@, offset, data),
                               ![<<c, handle>>].wrote =
                                  Append(@, [offset |-> offset, data |-> data])]
              /\ done' = Answered(r, "OK", <<>>)
              /\ emitted' = <<>>
      /\ step' = [name |-> "WRITE", conn |-> c]
      /\ NextRequest(c)
      /\ UNCHANGED <<accessControl, createDefaultSubdirs,
                     window, store, lastUploadTime, now, ticks, ssh, clients, reqs>>

\* sftp.on('CLOSE', (reqid, handle) => ...) with _closeFile
CLOSE(c, handle) ==
  LET user == clients[c].user
      r == [Request(c, "CLOSE") EXCEPT !.handle = handle, !.handleId = handle]
      files == clients[c].openFiles
      dirs == clients[c].openDirs
      state == files[handle]
      task == uploads[<<c, handle>>]
  IN  /\ Receiving(c)
      /\ CanArm(user)
      /\ trackUserActivity(user)
      /\ IF handle < 0 \/ (~Has(files, handle) /\ ~Has(dirs, handle))
         THEN /\ done' = Answered(r, "FAILURE", <<>>)
              /\ emitted' = <<>>
              /\ UNCHANGED <<clients, reqs, uploads>>
         ELSE IF ~Has(files, handle)
         THEN /\ clients' = [clients EXCEPT ![c].openDirs = MapDelete(@, handle)]
              /\ done' = Answered(r, "OK", <<>>)
              /\ emitted' = <<>>
              /\ UNCHANGED <<reqs, uploads>>
         ELSE IF "WRITE" \notin state.flags
         THEN /\ clients' = [clients EXCEPT ![c].openFiles = MapDelete(@, handle)]
              /\ done' = Answered(r, "OK", <<>>)
              /\ emitted' = <<Event("file-downloaded", user, state.fullname)>>
              /\ UNCHANGED <<reqs, uploads>>
         ELSE IF ~state.hasStream
         THEN \* state.stream is undefined: state.stream.end() throws
              /\ done' = [r EXCEPT !.pc = "exception"]
              /\ emitted' = <<>>
              /\ UNCHANGED <<clients, reqs, uploads>>
         ELSE IF state.uploadComplete
         THEN /\ clients' = [clients EXCEPT ![c].openFiles = MapDelete(@, handle)]
              /\ done' = Answered([r EXCEPT !.upload = task], "OK", <<>>)
              /\ emitted' = <<>>
              /\ UNCHANGED <<reqs, uploads>>
         ELSE IF state.uploadError # "null"
         THEN /\ clients' = [clients EXCEPT ![c].openFiles = MapDelete(@, handle)]
              /\ done' = Answered([r EXCEPT !.upload = task], "FAILURE", <<>>)
              /\ emitted' = <<>>
              /\ UNCHANGED <<reqs, uploads>>
         ELSE \* state.stream.end(), then setTimeout(checkUploadStatus, 100)
              /\ Len(reqs[c]) < window
              /\ uploads' = IF task.pc = "open"
                            THEN [uploads EXCEPT ![<<c, handle>>].pc = "ending"]
                            ELSE uploads
              /\ reqs' = [reqs EXCEPT ![c] = Append(@, [r EXCEPT !.pc = "poll"])]
              /\ done' = NoReq
              /\ emitted' = <<>>
              /\ UNCHANGED clients
      /\ step' = [name |-> "CLOSE", conn |-> c]
      /\ NextRequest(c)
      /\ UNCHANGED <<accessControl, createDefaultSubdirs,
                     window, store, lastUploadTime, now, ticks, ssh>>

\* checkUploadStatus as it would be if it answered OK without looking at the
\* upload flags: the variant the formula of C6 has to tell apart from the handler
ClosePollEager(c, i) ==
  LET r == reqs[c][i]
  IN  /\ i \in 1..Len(reqs[c])
      /\ r.pc = "poll"
      /\ Has(clients[c].openFiles, r.handleId)
      /\ clients' = [clients EXCEPT ![c].openFiles = MapDelete(@, r.handleId)]
      /\ done' = Answered([r EXCEPT !.upload = uploads[<<c, r.handleId>>]], "OK", <<>>)
      /\ reqs' = [reqs EXCEPT ![c] = RemoveAt(@, i)]
      /\ step' = [name |-> "ClosePoll", conn |-> c]
      /\ emitted' = <<>>
      /\ UNCHANGED <<reqid, accessControl, createDefaultSubdirs,
                     window, store, lastUploadTime, userConnections, idleTimers,
                     timers, now, ticks, ssh, uploads>>

\* checkUploadStatus of _closeFile, run by its 100 ms timeout; when neither
\* flag is set it only arms itself again
ClosePoll(c, i) ==
  LET r == reqs[c][i]
      files == clients[c].openFiles
      state == files[r.handleId]
      task == uploads[<<c, r.handleId>>]
  IN  /\ i \in 1..Len(reqs[c])
      /\ r.pc = "poll"
      /\ IF ~Has(files, r.handleId)
         THEN \* the handle was already cleaned up: no response is sent
              /\ done' = [r EXCEPT !.pc = "dropped"]
              /\ UNCHANGED clients
         ELSE /\ state.uploadComplete \/ state.uploadError # "null"
              /\ clients' = [clients EXCEPT ![c].openFiles = MapDelete(@, r.handleId)]
              /\ done' = Answered([r EXCEPT !.upload = task],
                                  IF state.uploadComplete THEN "OK" ELSE "FAILURE", <<>>)
      /\ reqs' = [reqs EXCEPT ![c] = RemoveAt(@, i)]
      /\ step' = [name |-> "ClosePoll", conn |-> c]
      /\ emitted' = <<>>
      /\ UNCHANGED <<reqid, accessControl, createDefaultSubdirs,
                     window, store, lastUploadTime, userConnections, idleTimers,
                     timers, now, ticks, ssh, uploads>>

\* the validation as it would be without the check for an empty buffer: the
\* variant the formula of C7 has to tell apart from the listener
uploadRejectionNoEmpty(fullname, buffer) ==
  IF /\ \/ Includes(ToLowerCase(fullname), SlashLedgersSlash)
        \/ Includes(ToLowerCase(fullname), SlashInvoicesSlash)
     /\ ~EndsWith(ToLowerCase(fullname), dotPdf)
  THEN "Only PDF files are allowed in ledgers and invoices directories"
  ELSE ""

\* the validation of the 'end' listener of _uploadToS3: "" when the PUT goes ahead
uploadRejection(fullname, buffer) ==
  LET lowerFullname == ToLowerCase(fullname)
  IN  IF Len(buffer) = 0 THEN "Empty files are not allowed"
      ELSE IF /\ \/ Includes(lowerFullname, SlashLedgersSlash)
                 \/ Includes(lowerFullname, SlashInvoicesSlash)
              /\ ~EndsWith(lowerFullname, dotPdf)
      THEN "Only PDF files are allowed in ledgers and invoices directories"
      ELSE ""

\* the 'end' handler as it would be if the stream could end without a CLOSE
\* (as when a session's end closed its streams): the variant the formula of
\* C36 has to tell apart
UploadEndUnclosed(c, h) ==
  LET task == uploads[<<c, h>>]
      buffer == Concat(task.chunks)
      reason == uploadRejection(task.fullname, buffer)
  IN  /\ Has(uploads, <<c, h>>)
      /\ task.pc \in {"open", "ending"}
      /\ IF reason # ""
         THEN /\ uploads' = [uploads EXCEPT ![<<c, h>>].pc = "done",
                                            ![<<c, h>>].result = "rejected"]
              /\ clients' = IF Has(clients[c].openFiles, h)
                            THEN [clients EXCEPT ![c].openFiles[h].uploadError = reason]
                            ELSE clients
              /\ emitted' = <<Event("upload-error", task.username, task.fullname)>>
         ELSE /\ uploads' = [uploads EXCEPT ![<<c, h>>].pc = "putting",
                                            ![<<c, h>>].body = buffer,
                                            ![<<c, h>>].contentLength = Len(buffer),
                                            ![<<c, h>>].puts = @ + 1]
              /\ emitted' = <<>>
              /\ UNCHANGED clients
      /\ Quiet("UploadEnd", c)
      /\ UNCHANGED <<reqid, accessControl, createDefaultSubdirs,
                     window, store, lastUploadTime, userConnections, idleTimers,
                     timers, now, ticks, ssh, reqs>>

\* stream.on('end', ...) of _uploadToS3, up to the PUT it sends
UploadEnd(c, h) ==
  LET task == uploads[<<c, h>>]
      buffer == Concat(task.chunks)
      reason == uploadRejection(task.fullname, buffer)
  IN  /\ Has(uploads, <<c, h>>)
      /\ task.pc = "ending"
      /\ IF reason # ""
         THEN /\ uploads' = [uploads EXCEPT ![<<c, h>>].pc = "done",
                                            ![<<c, h>>].result = "rejected"]
              /\ clients' = IF Has(clients[c].openFiles, h)
                            THEN [clients EXCEPT ![c].openFiles[h].uploadError = reason]
                            ELSE clients
              /\ emitted' = <<Event("upload-error", task.username, task.fullname)>>
         ELSE /\ uploads' = [uploads EXCEPT ![<<c, h>>].pc = "putting",
                                            ![<<c, h>>].body = buffer,
                                            ![<<c, h>>].contentLength = Len(buffer),
                                            ![<<c, h>>].puts = @ + 1]
              /\ emitted' = <<>>
              /\ UNCHANGED clients
      /\ Quiet("UploadEnd", c)
      /\ UNCHANGED <<reqid, accessControl, createDefaultSubdirs,
                     window, store, lastUploadTime, userConnections, idleTimers,
                     timers, now, ticks, ssh, reqs>>

\* the PUT of _uploadToS3 resolves
UploadPutResolved(c, h, putOk) ==
  LET task == uploads[<<c, h>>]
      known == Has(clients[c].openFiles, h)
  IN  /\ Has(uploads, <<c, h>>)
      /\ task.pc = "putting"
      /\ IF putOk
         THEN /\ store' = MapSet(store, task.fullname,
                                 [body |-> task.body, by |-> Origin("upload", c, h)])
              /\ uploads' = [uploads EXCEPT ![<<c, h>>].pc = "done",
                                            ![<<c, h>>].result = "stored",
                                            ![<<c, h>>].at = now]
              /\ clients' = IF known
                            THEN [clients EXCEPT ![c].openFiles[h].uploadComplete = TRUE]
                            ELSE clients
              /\ lastUploadTime' = IF known THEN now ELSE lastUploadTime
              /\ emitted' = IF known
                            THEN <<Event("file-uploaded", task.username, task.fullname),
                                   Event("directory-changed", task.username,
                                         PathDirname(task.fullname))>>
                            ELSE <<>>
         ELSE /\ uploads' = [uploads EXCEPT ![<<c, h>>].pc = "done",
                                            ![<<c, h>>].result = "failed"]
              /\ clients' = IF known
                            THEN [clients EXCEPT ![c].openFiles[h].uploadError = "store error"]
                            ELSE clients
              /\ emitted' = <<Event("upload-error", task.username, task.fullname)>>
              /\ UNCHANGED <<store, lastUploadTime>>
      /\ Quiet("UploadPutResolved", c)
      /\ UNCHANGED <<reqid, accessControl, createDefaultSubdirs,
                     window, userConnections, idleTimers, timers, now, ticks,
                     ssh, reqs>>

(* ------------------------------------------------------------------ *)
(* Request router: directories                                         *)
(* ------------------------------------------------------------------ *)

\* response.Contents of a ListObjectsV2: the objects in key order
ListContents(prefix) ==
  LET keys == SortKeys(ListKeys(prefix))
  IN  [i \in 1..Len(keys) |->
         [Key |-> keys[i], Size |-> Len(store[keys[i]].body), IsDir |-> FALSE]]

\* the filter callback of _processDirectoryListings applied from element i on;
\* the callback rewrites Key and IsDir of the element it keeps, in place
RECURSIVE processListingsFrom(_, _, _, _)
processListingsFrom(contents, i, fullname, kept) ==
  IF i > Len(contents) THEN kept
  ELSE
    LET c == contents[i]
        f0 == Substring(c.Key, Len(fullname))
        f == IF StartsWith(f0, Root) THEN f0 ELSE Root \o f0
        parts == Split(f, "/")
        dirKey == fullname \o Root \o parts[2]
        hasChildren == \E j \in 1..Len(contents) :
                          /\ contents[j].Key # c.Key
                          /\ StartsWith(contents[j].Key, dirKey \o Root)
        hasMarker == \E j \in 1..Len(contents) :
                          contents[j].Key = c.Key \o DirectoryMarker
        asMarker == [c EXCEPT !.Key = SubSeq(c.Key, 1, Len(c.Key) - 11), !.IsDir = TRUE]
        asParent == [c EXCEPT !.Key = dirKey, !.IsDir = TRUE]
        asDir == [c EXCEPT !.IsDir = TRUE]
        skip == processListingsFrom(contents, i + 1, fullname, kept)
        keep(x) == processListingsFrom([contents EXCEPT ![i] = x], i + 1, fullname,
                                       Append(kept, x))
    IN  IF f = LegacyMarker THEN skip
        ELSE IF parts[1] # <<>> THEN skip
        ELSE IF Len(parts) = 3 /\ parts[3] = dotDirectory
        THEN (IF parts[2] = <<>> THEN skip ELSE keep(asMarker))
        ELSE IF Len(parts) = 2 THEN keep(c)
        ELSE IF Len(parts) > 2 /\ hasChildren THEN keep(asParent)
        ELSE IF hasMarker THEN keep(asDir)
        ELSE skip

\* _processDirectoryListings(contents, fullname)
processDirectoryListings(contents, fullname) ==
  processListingsFrom(contents, 1, fullname, <<>>)

\* the entry _listDirectoryContents builds for one listing
DirEntry(l, fullname) ==
  LET f0 == Substring(l.Key, Len(fullname))
      f1 == IF StartsWith(f0, Root) THEN Substring(f0, 1) ELSE f0
      filename == IF EndsWith(f1, Root) THEN SubSeq(f1, 1, Len(f1) - 1) ELSE f1
  IN  [filename |-> filename,
       mode |-> IF l.IsDir THEN "0755" ELSE "0644",
       size |-> IF l.IsDir THEN 0 ELSE l.Size]

SyntheticDir(name) == [filename |-> name, mode |-> "0755", size |-> 0]

\* the entries as they are without the filter on seen names: the variant the
\* formula of C17 has to tell apart from _listDirectoryContents
KeepDuplicates(entries) == entries

\* entries.filter(entry => !seen.has(entry.filename) ...): the first of each name
RemoveDuplicates(entries) ==
  LET keepAt == {i \in 1..Len(entries) :
                   \A j \in 1..(i - 1) : entries[j].filename # entries[i].filename}
      RECURSIVE pick(_)
      pick(i) == IF i > Len(entries) THEN <<>>
                 ELSE (IF i \in keepAt THEN <<entries[i]>> ELSE <<>>) \o pick(i + 1)
  IN  pick(1)

\* _listDirectoryContents(sftp, reqid, state): the entries of sftp.name
listDirectoryContents(state) ==
  IF state.fullname = <<>>
  THEN <<SyntheticDir(state.user), SyntheticDir(ledgers), SyntheticDir(invoices)>>
  ELSE RemoveDuplicates([i \in 1..Len(state.listings) |->
                           DirEntry(state.listings[i], state.fullname)])

\* a state of openDirs; served counts the listings READDIR has sent for it
DirState(fullname, listings, user) ==
  [fullname |-> fullname, listings |-> listings, user |-> user, read |-> FALSE,
   served |-> 0]

\* handles already given out or promised to an OPEN that waits for its LIST
HandlesClaimed(c) ==
  clients[c].handleCount
    + Cardinality({i \in 1..Len(reqs[c]) : reqs[c][i].pc = "checkIfDirectory"})

\* sftp.on('OPENDIR', (reqid, dirPath) => ...) up to the LIST of _openDirectory
OPENDIR(c, dirPath) ==
  LET user == clients[c].user
      r == [Request(c, "OPENDIR") EXCEPT !.path = dirPath]
      fullname == mapKey(userPathOf(user), dirPath)
      h == clients[c].handleCount
  IN  /\ Receiving(c)
      /\ CanArm(user)
      /\ trackUserActivity(user)
      /\ IF ~isPathAllowed(accessControl, user, dirPath)
         THEN /\ done' = Answered(r, "PERMISSION_DENIED", <<>>)
              /\ UNCHANGED <<reqs, clients>>
         ELSE /\ Len(reqs[c]) < window
              /\ HandlesClaimed(c) < MaxHandles
              /\ clients' = [clients EXCEPT ![c].handleCount = NextHandle(h)]
              /\ reqs' = [reqs EXCEPT ![c] = Append(@,
                            [r EXCEPT !.fullname = fullname, !.isRoot = (dirPath = Root),
                                      !.handleId = h, !.pc = "openDirectory",
                                      !.calls = <<Call("LIST", fullname)>>])]
              /\ done' = NoReq
      /\ step' = [name |-> "OPENDIR", conn |-> c]
      /\ emitted' = <<>>
      /\ NextRequest(c)
      /\ UNCHANGED <<accessControl, createDefaultSubdirs,
                     window, store, lastUploadTime, now, ticks, ssh, uploads>>

\* the end of _openDirectory: the handle for the listing, or NO_SUCH_FILE
OpenDirectoryResult(c, r, contents) ==
  IF Len(contents) = 0 /\ ~r.isRoot
  THEN /\ done' = Answered(r, "NO_SUCH_FILE", <<>>)
       /\ UNCHANGED clients
  ELSE /\ clients' = [clients EXCEPT ![c].openDirs = MapSet(@, r.handleId,
                        DirState(r.fullname, processDirectoryListings(contents, r.fullname),
                                 clients[c].user))]
       /\ done' = Answered(r, "HANDLE", <<r.handleId>>)

\* the test of _openDirectory as it would be if no upload counted as recent:
\* the variant the formula of C25 has to tell apart from the handler
uploadedLongAgo(timeSinceUpload) == FALSE

\* `timeSinceUpload < 10000` of _openDirectory
uploadedRecently(timeSinceUpload) == timeSinceUpload < RecentUploadMs

\* the first LIST of _openDirectory resolves; on an empty root the markers are
\* provisioned (nPut of the PUTs succeed); after a recent upload the handler
\* sleeps and lists again
OpenDirListed(c, i, listOk, nPut) ==
  LET r == reqs[c][i]
      contents == ListContents(r.fullname)
      provision == r.isRoot /\ Len(contents) = 0 /\ createDefaultSubdirs
      recent == uploadedRecently(now - lastUploadTime)
  IN  /\ i \in 1..Len(reqs[c])
      /\ r.pc = "openDirectory"
      /\ IF ~listOk
         THEN /\ done' = Answered(r, "FAILURE", <<>>)
              /\ reqs' = [reqs EXCEPT ![c] = RemoveAt(@, i)]
              /\ UNCHANGED <<clients, store>>
         ELSE /\ store' = IF provision
                          THEN StoreWithMarkers(store, clients[c].user, nPut)
                          ELSE store
              /\ IF recent
                 THEN /\ reqs' = [reqs EXCEPT ![c][i] =
                                    [r EXCEPT !.pc = "relist",
                                              !.calls = Append(@, Call("LIST", r.fullname))]]
                      /\ done' = NoReq
                      /\ UNCHANGED clients
                 ELSE /\ OpenDirectoryResult(c, r, contents)
                      /\ reqs' = [reqs EXCEPT ![c] = RemoveAt(@, i)]
      /\ step' = [name |-> "OpenDirListed", conn |-> c]
      /\ emitted' = <<>>
      /\ UNCHANGED <<reqid, accessControl, createDefaultSubdirs,
                     window, lastUploadTime, userConnections, idleTimers,
                     timers, now, ticks, ssh, uploads>>

\* the second LIST of _openDirectory (after the consistency delay) resolves
OpenDirRelisted(c, i, listOk) ==
  LET r == reqs[c][i]
  IN  /\ i \in 1..Len(reqs[c])
      /\ r.pc = "relist"
      /\ IF ~listOk
         THEN /\ done' = Answered(r, "FAILURE", <<>>)
              /\ UNCHANGED clients
         ELSE OpenDirectoryResult(c, r, ListContents(r.fullname))
      /\ reqs' = [reqs EXCEPT ![c] = RemoveAt(@, i)]
      /\ step' = [name |-> "OpenDirRelisted", conn |-> c]
      /\ emitted' = <<>>
      /\ UNCHANGED <<reqid, accessControl, createDefaultSubdirs,
                     window, store, lastUploadTime, userConnections, idleTimers,
                     timers, now, ticks, ssh, uploads>>

\* READDIR as it would be if it did not mark the handle as read: the variant
\* the formula of C15 has to tell apart from the handler
READDIRUnmarked(c, handle) ==
  LET user == clients[c].user
      r == [Request(c, "READDIR") EXCEPT !.handle = handle]
      dirs == clients[c].openDirs
      state == dirs[handle]
  IN  /\ Receiving(c)
      /\ CanArm(user)
      /\ trackUserActivity(user)
      /\ IF handle < 0 \/ ~Has(dirs, handle)
         THEN /\ done' = Answered(r, "FAILURE", <<>>)
              /\ UNCHANGED clients
         ELSE /\ clients' = [clients EXCEPT ![c].openDirs[handle].served = @ + 1]
              /\ done' = Answered(r, "NAME", listDirectoryContents(state))
      /\ step' = [name |-> "READDIR", conn |-> c]
      /\ emitted' = <<>>
      /\ NextRequest(c)
      /\ UNCHANGED <<accessControl, createDefaultSubdirs,
                     window, store, lastUploadTime, now, ticks, ssh, reqs, uploads>>

\* sftp.on('READDIR', (reqid, handle) => ...)
READDIR(c, handle) ==
  LET user == clients[c].user
      r == [Request(c, "READDIR") EXCEPT !.handle = handle]
      dirs == clients[c].openDirs
      state == dirs[handle]
  IN  /\ Receiving(c)
      /\ CanArm(user)
      /\ trackUserActivity(user)
      /\ IF handle < 0 \/ ~Has(dirs, handle)
         THEN /\ done' = Answered(r, "FAILURE", <<>>)
              /\ UNCHANGED clients
         ELSE IF state.read
         THEN /\ done' = Answered(r, "EOF", <<>>)
              /\ UNCHANGED clients
         ELSE /\ clients' = [clients EXCEPT ![c].openDirs[handle].read = TRUE,
                                             ![c].openDirs[handle].served = @ + 1]
              /\ done' = Answered(r, "NAME", listDirectoryContents(state))
      /\ step' = [name |-> "READDIR", conn |-> c]
      /\ emitted' = <<>>
      /\ NextRequest(c)
      /\ UNCHANGED <<accessControl, createDefaultSubdirs,
                     window, store, lastUploadTime, now, ticks, ssh, reqs, uploads>>

(* ------------------------------------------------------------------ *)
(* Request router: REMOVE, MKDIR, RMDIR, RENAME, STAT, LSTAT, REALPATH *)
(* ------------------------------------------------------------------ *)

\* a handler that answers at once and neither touches the store nor the session
AnswerOnly(name, c, answered, events) ==
  /\ done' = answered
  /\ step' = [name |-> name, conn |-> c]
  /\ emitted' = events
  /\ NextRequest(c)
  /\ UNCHANGED <<accessControl, createDefaultSubdirs,
                 window, store, lastUploadTime, userConnections, idleTimers,
                 timers, now, ticks, ssh, clients, reqs, uploads>>

\* a handler that sends its first store call and waits for it
AwaitStore(name, c, pending) ==
  /\ Len(reqs[c]) < window
  /\ reqs' = [reqs EXCEPT ![c] = Append(@, pending)]
  /\ done' = NoReq
  /\ step' = [name |-> name, conn |-> c]
  /\ emitted' = <<>>
  /\ NextRequest(c)
  /\ UNCHANGED <<accessControl, createDefaultSubdirs,
                 window, store, lastUploadTime, userConnections, idleTimers,
                 timers, now, ticks, ssh, clients, uploads>>

\* a store call of a waiting request resolves and the request is answered
Resolve(name, c, i, answered, events) ==
  /\ done' = answered
  /\ reqs' = [reqs EXCEPT ![c] = RemoveAt(@, i)]
  /\ step' = [name |-> name, conn |-> c]
  /\ emitted' = events
  /\ UNCHANGED <<reqid, accessControl, createDefaultSubdirs,
                 window, lastUploadTime, userConnections, idleTimers,
                 timers, now, ticks, ssh, clients, uploads>>

\* sftp.on('REMOVE', (reqid, filePath) => ...) up to the DELETE of _deleteFileFromS3
REMOVE(c, filePath) ==
  LET user == clients[c].user
      r == [Request(c, "REMOVE") EXCEPT !.path = filePath]
      fullname == mapKey(userPathOf(user), filePath)
  IN  /\ Receiving(c)
      /\ IF isProtectedStructure(filePath)
         THEN AnswerOnly("REMOVE", c, Answered(r, "PERMISSION_DENIED", <<>>),
                         <<Event("protected-directory-deletion-blocked", user, filePath)>>)
         ELSE IF ~isPathAllowed(accessControl, user, filePath)
         THEN AnswerOnly("REMOVE", c, Answered(r, "PERMISSION_DENIED", <<>>), <<>>)
         ELSE AwaitStore("REMOVE", c,
                         [r EXCEPT !.fullname = fullname, !.pc = "delete",
                                   !.calls = <<Call("DELETE", fullname)>>])

\* the DELETE of _deleteFileFromS3 resolves (deleting a missing key succeeds)
RemoveDeleted(c, i, deleteOk) ==
  LET r == reqs[c][i]
  IN  /\ i \in 1..Len(reqs[c])
      /\ r.pc = "delete"
      /\ IF deleteOk
         THEN /\ store' = MapDelete(store, r.fullname)
              /\ Resolve("RemoveDeleted", c, i, Answered(r, "OK", <<>>),
                         <<Event("file-deleted", clients[c].user, r.fullname)>>)
         ELSE /\ UNCHANGED store
              /\ Resolve("RemoveDeleted", c, i, Answered(r, "FAILURE", <<>>), <<>>)

\* MKDIR as it would be if the handler still called _createDirectoryInS3:
\* the variant the formula of C2 has to tell apart from the handler
MkdirCreates(c, dirPath) ==
  /\ Receiving(c)
  /\ AwaitStore("MKDIR", c,
                [Request(c, "MKDIR") EXCEPT
                   !.path = dirPath,
                   !.fullname = mapKey(userPathOf(clients[c].user), dirPath),
                   !.pc = "createDirectory",
                   !.calls = <<Call("PUT", mapKey(userPathOf(clients[c].user), dirPath))>>])

\* sftp.on('MKDIR', (reqid, dirPath, attrs) => ...)
MKDIR(c, dirPath) ==
  /\ Receiving(c)
  /\ AnswerOnly("MKDIR", c,
                Answered([Request(c, "MKDIR") EXCEPT !.path = dirPath],
                         "PERMISSION_DENIED", <<>>),
                <<Event("directory-creation-blocked", clients[c].user, dirPath)>>)

\* sftp.on('RMDIR', (reqid, dirPath) => ...)
RMDIR(c, dirPath) ==
  /\ Receiving(c)
  /\ AnswerOnly("RMDIR", c,
                Answered([Request(c, "RMDIR") EXCEPT !.path = dirPath],
                         "PERMISSION_DENIED", <<>>),
                <<Event("directory-deletion-blocked", clients[c].user, dirPath)>>)

\* sftp.on('RENAME', (reqid, oldPath, newPath) => ...) up to the COPY of _renameInS3
RENAME(c, oldPath, newPath) ==
  LET user == clients[c].user
      r == [Request(c, "RENAME") EXCEPT !.path = oldPath, !.newPath = newPath]
      fullnameOld == mapKey(userPathOf(user), oldPath)
      fullnameNew == mapKey(userPathOf(user), newPath)
  IN  /\ Receiving(c)
      /\ IF isProtectedStructure(oldPath)
         THEN AnswerOnly("RENAME", c, Answered(r, "PERMISSION_DENIED", <<>>),
                         <<Event("protected-directory-rename-blocked", user, oldPath)>>)
         ELSE AwaitStore("RENAME", c,
                         [r EXCEPT !.fullname = fullnameOld, !.fullnameNew = fullnameNew,
                                   !.pc = "copy",
                                   !.calls = <<Call("COPY", fullnameNew)>>])

\* _renameInS3 as it would be if it sent the DELETE whatever the COPY did:
\* the variant the formula of C31 has to tell apart from the handler
RenameCopiedBlind(c, i, copyOk) ==
  LET r == reqs[c][i]
  IN  /\ i \in 1..Len(reqs[c])
      /\ r.pc = "copy"
      /\ store' = IF copyOk /\ Has(store, r.fullname) /\ r.fullname # r.fullnameNew
                  THEN MapSet(store, r.fullnameNew,
                              [body |-> store[r.fullname].body, by |-> Origin("rename", c, 0)])
                  ELSE store
      /\ reqs' = [reqs EXCEPT ![c][i] =
                    [r EXCEPT !.pc = "renameDelete",
                              !.calls = Append(@, Call("DELETE", r.fullname))]]
      /\ done' = NoReq
      /\ step' = [name |-> "RenameCopied", conn |-> c]
      /\ emitted' = <<>>
      /\ UNCHANGED <<reqid, accessControl, createDefaultSubdirs,
                     window, lastUploadTime, userConnections, idleTimers,
                     timers, now, ticks, ssh, clients, uploads>>

\* the COPY of _renameInS3 resolves; the store refuses a copy of a missing
\* source and a copy of an object onto itself; on success the DELETE is sent
RenameCopied(c, i, copyOk) ==
  LET r == reqs[c][i]
  IN  /\ i \in 1..Len(reqs[c])
      /\ r.pc = "copy"
      /\ IF copyOk /\ Has(store, r.fullname) /\ r.fullname # r.fullnameNew
         THEN /\ store' = MapSet(store, r.fullnameNew,
                                 [body |-> store[r.fullname].body,
                                  by |-> Origin("rename", c, 0)])
              /\ reqs' = [reqs EXCEPT ![c][i] =
                            [r EXCEPT !.pc = "renameDelete",
                                      !.calls = Append(@, Call("DELETE", r.fullname))]]
              /\ done' = NoReq
              /\ step' = [name |-> "RenameCopied", conn |-> c]
              /\ emitted' = <<>>
              /\ UNCHANGED <<reqid, accessControl, createDefaultSubdirs,
                             window, lastUploadTime, userConnections, idleTimers,
                             timers, now, ticks, ssh, clients, uploads>>
         ELSE /\ UNCHANGED store
              /\ Resolve("RenameCopied", c, i, Answered(r, "FAILURE", <<>>), <<>>)

\* the DELETE of _renameInS3 resolves
RenameDeleted(c, i, deleteOk) ==
  LET r == reqs[c][i]
  IN  /\ i \in 1..Len(reqs[c])
      /\ r.pc = "renameDelete"
      /\ IF deleteOk
         THEN /\ store' = MapDelete(store, r.fullname)
              /\ Resolve("RenameDeleted", c, i, Answered(r, "OK", <<>>),
                         <<Event("file-renamed", clients[c].user, r.fullnameNew)>>)
         ELSE /\ UNCHANGED store
              /\ Resolve("RenameDeleted", c, i, Answered(r, "FAILURE", <<>>), <<>>)

\* sftp.on('STAT') and sftp.on('LSTAT') up to the LIST of _getFileStats
STAT(c, verb, filePath) ==
  LET user == clients[c].user
      r == [Request(c, verb) EXCEPT !.path = filePath]
      fullname == mapKey(userPathOf(user), filePath)
  IN  /\ Receiving(c)
      /\ IF ~isPathAllowed(accessControl, user, filePath)
         THEN AnswerOnly(verb, c, Answered(r, "PERMISSION_DENIED", <<>>), <<>>)
         ELSE AwaitStore(verb, c,
                         [r EXCEPT !.fullname = fullname, !.pc = "getFileStats",
                                   !.calls = <<Call("LIST", fullname)>>])

\* the attrs _getFileStats answers: [mode, size], or <<>> when nothing matches
fileStats(fullname) ==
  LET keys == ListKeys(fullname)
  IN  IF fullname \in keys
      THEN <<[mode |-> "0644", size |-> Len(store[fullname].body)]>>
      ELSE IF \/ (fullname \o DirectoryMarker) \in keys
              \/ (fullname \o LegacyMarker) \in keys
              \/ \E k \in keys : k # fullname /\ StartsWith(k, fullname \o Root)
      THEN <<[mode |-> "0755", size |-> 0]>>
      ELSE <<>>

\* the LIST of _getFileStats resolves; an empty result comes back either with
\* Contents missing (find on undefined throws, caught: FAILURE) or as []
StatListed(c, i, listOk, contentsMissing) ==
  LET r == reqs[c][i]
      attrs == fileStats(r.fullname)
  IN  /\ i \in 1..Len(reqs[c])
      /\ r.pc = "getFileStats"
      /\ UNCHANGED store
      /\ IF ~listOk
         THEN Resolve("StatListed", c, i,
                      Answered([r EXCEPT !.storeError = TRUE], "FAILURE", <<>>), <<>>)
         ELSE IF ListKeys(r.fullname) = {} /\ contentsMissing
         THEN Resolve("StatListed", c, i, Answered(r, "FAILURE", <<>>), <<>>)
         ELSE IF attrs = <<>>
         THEN Resolve("StatListed", c, i, Answered(r, "NO_SUCH_FILE", <<>>), <<>>)
         ELSE Resolve("StatListed", c, i, Answered(r, "ATTRS", attrs), <<>>)

\* the p of _resolvePath: the normalised path that REALPATH answers
resolvedName(filePath) ==
  LET f == IF filePath = <<".">> THEN Root ELSE filePath
      p1 == ReplaceTwoBackslashes(f)
      p2 == ReplaceBackslashAnyBackslash(p1)
      p3 == ReplaceBackslashes(p2)
      p4 == ReplaceBackslashes(PathNormalize(p3))
  IN  IF StartsWith(p4, Root) THEN p4 ELSE Root \o p4

\* sftp.on('REALPATH', (reqid, filePath) => ...) up to the LIST of _resolvePath
REALPATH(c, filePath) ==
  LET user == clients[c].user
      r == [Request(c, "REALPATH") EXCEPT !.path = filePath]
      f == IF filePath = <<".">> THEN Root ELSE filePath
      fullname == mapKey(userPathOf(user), f)
  IN  /\ Receiving(c)
      /\ AwaitStore("REALPATH", c,
                    [r EXCEPT !.fullname = fullname, !.filename = resolvedName(filePath),
                              !.pc = "resolvePath",
                              !.calls = <<Call("LIST", fullname)>>])

\* the LIST of _resolvePath resolves: the first object, in key order, that is
\* the key itself or one of its markers
RealpathListed(c, i, listOk) ==
  LET r == reqs[c][i]
      contents == ListContents(r.fullname)
      hits == {j \in 1..Len(contents) :
                 \/ contents[j].Key = r.fullname
                 \/ contents[j].Key = r.fullname \o DirectoryMarker
                 \/ contents[j].Key = r.fullname \o LegacyMarker}
      realObj == contents[CHOOSE j \in hits : \A k \in hits : j <= k]
      isDir == EndsWith(realObj.Key, DirectoryMarker) \/ EndsWith(realObj.Key, LegacyMarker)
      p == r.filename
  IN  /\ i \in 1..Len(reqs[c])
      /\ r.pc = "resolvePath"
      /\ UNCHANGED store
      /\ IF ~listOk
         THEN Resolve("RealpathListed", c, i, Answered(r, "FAILURE", <<>>), <<>>)
         ELSE IF hits = {} /\ p \in {Root, <<"/", ".">>, <<".">>}
         THEN Resolve("RealpathListed", c, i,
                      Answered(r, "NAME", <<[filename |-> Root, isDir |-> TRUE, size |-> 0]>>),
                      <<>>)
         ELSE IF hits = {}
         THEN Resolve("RealpathListed", c, i, Answered(r, "NO_SUCH_FILE", <<>>), <<>>)
         ELSE Resolve("RealpathListed", c, i,
                      Answered(r, "NAME", <<[filename |-> p, isDir |-> isDir,
                                            size |-> realObj.Size]>>),
                      <<>>)

(* ------------------------------------------------------------------ *)
(* Specification of the path verbs                                     *)
(* ------------------------------------------------------------------ *)

aPdf == <<"a", ".", "p", "d", "f">>

\* the paths a client names in its requests
PathFile == Root \o aPdf
PathLedgersMarker == SlashLedgers \o DirectoryMarker
PathRelativeMarker == ledgers \o DirectoryMarker
PathRelativeInvoicesMarker == invoices \o DirectoryMarker
PathBobLedgers == Root \o strBob \o SlashLedgers
PathUserLedgers == Root \o strUser \o SlashLedgers
PathUserFile == Root \o strUser \o Root \o aPdf
PathLedgersFile == SlashLedgers \o Root \o aPdf
\* a relative path that climbs out of the directory it starts in
dotdot == <<".", ".">>
PathAboveHome == dotdot \o Root \o strUser \o Root \o aPdf
\* a path under the user's own directory that climbs two levels up from it
PathThroughOwn == Root \o strBob \o Root \o dotdot \o Root \o PathAboveHome

RequestPaths ==
  {Root, PathFile, SlashLedgers, PathLedgersMarker, PathRelativeMarker,
   PathBobLedgers, PathUserLedgers, PathUserFile, PathLedgersFile, PathAboveHome,
   PathThroughOwn}

RenameTargets == {PathFile, PathRelativeInvoicesMarker, PathUserFile}

\* the server is started, a client connects, logs in and opens its SFTP session
SessionSetup ==
  \/ Listen
  \/ \E c \in Conns : Connection(c)
  \/ \E c \in Conns, u \in Usernames, nPut \in {0, 2} :
       Authentication(c, "password", u, strPw, TRUE, nPut)
  \/ \E c \in Conns : Ready(c)
  \/ \E c \in Conns : Sftp(c)

Next ==
  \/ SessionSetup
  \/ \E c \in Conns, p \in RequestPaths :
       Within(MaxRequests, c) /\ OPEN(c, p, {"READ"})
  \/ \E c \in Conns, i \in 1..MaxPending, ok \in BOOLEAN : OpenChecked(c, i, ok)
  \/ \E c \in Conns, i \in 1..MaxPending, ok \in BOOLEAN, missing \in BOOLEAN :
       OpenReadListed(c, i, ok, missing)
  \/ \E c \in Conns, p \in RequestPaths :
       Within(MaxRequests, c) /\ OPENDIR(c, p)
  \/ \E c \in Conns, i \in 1..MaxPending, ok \in BOOLEAN : OpenDirListed(c, i, ok, 2)
  \/ \E c \in Conns, p \in RequestPaths :
       Within(MaxRequests, c) /\ REMOVE(c, p)
  \/ \E c \in Conns, i \in 1..MaxPending, ok \in BOOLEAN : RemoveDeleted(c, i, ok)
  \/ \E c \in Conns, p \in RequestPaths :
       Within(MaxRequests, c) /\ MKDIR(c, p)
  \/ \E c \in Conns, p \in RequestPaths :
       Within(MaxRequests, c) /\ RMDIR(c, p)
  \/ \E c \in Conns, p \in RequestPaths, q \in RenameTargets :
       Within(MaxRequests, c) /\ RENAME(c, p, q)
  \/ \E c \in Conns, i \in 1..MaxPending, ok \in BOOLEAN : RenameCopied(c, i, ok)
  \/ \E c \in Conns, i \in 1..MaxPending, ok \in BOOLEAN : RenameDeleted(c, i, ok)
  \/ \E c \in Conns, p \in RequestPaths, v \in {"STAT", "LSTAT"} :
       Within(MaxRequests, c) /\ STAT(c, v, p)
  \/ \E c \in Conns, i \in 1..MaxPending, ok \in BOOLEAN, missing \in BOOLEAN :
       StatListed(c, i, ok, missing)
  \/ \E c \in Conns, p \in RequestPaths :
       Within(MaxRequests, c) /\ REALPATH(c, p)
  \/ \E c \in Conns, i \in 1..MaxPending, ok \in BOOLEAN : RealpathListed(c, i, ok)

Spec == Init /\ [][Next]_vars

(* ------------------------------------------------------------------ *)
(* Properties of the path verbs                                        *)
(* ------------------------------------------------------------------ *)

PathVerbs == {"OPEN", "OPENDIR", "STAT", "LSTAT", "REMOVE", "RENAME", "REALPATH"}

\* the policy does not admit a path the request names
Denied(r) ==
  LET user == clients[r.conn].user
  IN  \/ ~isPathAllowed(accessControl, user, r.path)
      \/ r.verb = "RENAME" /\ ~isPathAllowed(accessControl, user, r.newPath)

\* C1: a request of a path verb that names a path the policy does not admit
\* for the session's user is answered PERMISSION_DENIED without a store call:
\* no such request waits for the store, and the one answered last was refused
\* with no call issued.
C1_DeniedPathsRefused ==
  /\ \A c \in Conns : \A i \in 1..Len(reqs[c]) :
        reqs[c][i].verb \in PathVerbs => ~Denied(reqs[c][i])
  /\ (done # NoReq /\ done.verb \in PathVerbs /\ Denied(done))
        => (done.status = "PERMISSION_DENIED" /\ done.calls = <<>>)

\* C2: every step that handles a MKDIR or an RMDIR answers PERMISSION_DENIED,
\* emits exactly the directory-creation-blocked (MKDIR) or
\* directory-deletion-blocked (RMDIR) event for the user and the path, issues
\* no store call, leaves no request waiting, and leaves the store unchanged.
C2_MkdirRmdirRefused ==
  [][step'.name \in {"MKDIR", "RMDIR"} =>
       /\ done' # NoReq
       /\ done'.verb = step'.name
       /\ done'.status = "PERMISSION_DENIED"
       /\ done'.calls = <<>>
       /\ emitted' = <<Event(IF step'.name = "MKDIR" THEN "directory-creation-blocked"
                             ELSE "directory-deletion-blocked",
                             clients[step'.conn].user, done'.path)>>
       /\ reqs' = reqs
       /\ store' = store]_vars

\* C2 witness: a MKDIR was refused while another request of the session was
\* waiting for the store
C2_MkdirRefusedWhilePending ==
  /\ step.name = "MKDIR"
  /\ done # NoReq
  /\ done.status = "PERMISSION_DENIED"
  /\ Len(reqs[done.conn]) > 0

\* the protected set of a user: the two directories under both of their names,
\* and the markers of those
ProtectedDirs(username) ==
  {SlashLedgers, SlashInvoices,
   Root \o username \o SlashLedgers, Root \o username \o SlashInvoices}

ProtectedPaths(username) ==
  ProtectedDirs(username) \cup {d \o DirectoryMarker : d \in ProtectedDirs(username)}

\* C3: a REMOVE or a RENAME whose path (the old path of a RENAME) is in the
\* protected set of the session's user is answered PERMISSION_DENIED with the
\* blocked event and without a store call: no such request waits for the
\* store, and the one answered last was refused that way.
C3_ProtectedTargetsRefused ==
  /\ \A c \in Conns : \A i \in 1..Len(reqs[c]) :
        reqs[c][i].verb \in {"REMOVE", "RENAME"}
          => reqs[c][i].path \notin ProtectedPaths(clients[c].user)
  /\ (/\ done # NoReq
      /\ done.verb \in {"REMOVE", "RENAME"}
      /\ done.path \in ProtectedPaths(clients[done.conn].user))
        => /\ done.status = "PERMISSION_DENIED"
           /\ done.calls = <<>>
           /\ emitted = <<Event(IF done.verb = "REMOVE"
                                THEN "protected-directory-deletion-blocked"
                                ELSE "protected-directory-rename-blocked",
                                clients[done.conn].user, done.path)>>

\* the keys of the markers of the protected directories
MarkerKeys == {subDirKey(u, d) : u \in Usernames, d \in {ledgers, invoices}}

\* C4: no step that resolves a store call of a REMOVE or a RENAME deletes or
\* changes a marker of a protected directory: a marker that is in the store
\* before the step is in the store after it, with the same content.
C4_MarkersKept ==
  [][step'.name \in {"RemoveDeleted", "RenameCopied", "RenameDeleted"} =>
       \A k \in MarkerKeys :
          Has(store, k) => (Has(store', k) /\ store'[k] = store[k])]_vars

(* ------------------------------------------------------------------ *)
(* Specification of uploads and downloads                              *)
(* ------------------------------------------------------------------ *)

\* requests one session sends in an upload followed by a download
MaxUploadRequests == 6

UploadPaths == {PathFile, PathLedgersFile}
\* the WRITE requests a client sends: [offset, data]
WriteInputs == {[offset |-> 0, data |-> <<"x">>], [offset |-> 7, data |-> <<"y", "z">>]}
ReadOffsets == {0, 1}
ReadLengths == {0, 1, 3}
Handles == 0..(MaxHandles - 1)

NextUpload ==
  \/ Listen
  \/ \E c \in Conns : Connection(c)
  \/ \E c \in Conns : Authentication(c, "password", strBob, strPw, TRUE, 2)
  \/ \E c \in Conns : Ready(c)
  \/ \E c \in Conns : Sftp(c)
  \/ \E c \in Conns, p \in UploadPaths, f \in {{"WRITE"}, {"READ"}} :
       Within(MaxUploadRequests, c) /\ OPEN(c, p, f)
  \/ \E c \in Conns, i \in 1..MaxPending, ok \in BOOLEAN : OpenChecked(c, i, ok)
  \/ \E c \in Conns, i \in 1..MaxPending, ok \in BOOLEAN, missing \in BOOLEAN :
       OpenReadListed(c, i, ok, missing)
  \/ \E c \in Conns, h \in Handles, w \in WriteInputs, x \in BOOLEAN :
       Within(MaxUploadRequests, c) /\ WRITE(c, h, w.offset, w.data, x)
  \/ \E c \in Conns, h \in Handles :
       Within(MaxUploadRequests, c) /\ CLOSE(c, h)
  \/ \E c \in Conns, i \in 1..MaxPending : ClosePoll(c, i)
  \/ \E c \in Conns, h \in Handles : UploadEnd(c, h)
  \/ \E c \in Conns, h \in Handles, ok \in BOOLEAN : UploadPutResolved(c, h, ok)
  \/ \E c \in Conns, h \in Handles, o \in ReadOffsets, n \in ReadLengths :
       Within(MaxUploadRequests, c) /\ READ(c, h, o, n)
  \/ \E c \in Conns, i \in 1..MaxPending, ok \in BOOLEAN : ReadGot(c, i, ok)

SpecUpload == Init /\ [][NextUpload]_vars

(* ------------------------------------------------------------------ *)
(* Properties of uploads and downloads                                 *)
(* ------------------------------------------------------------------ *)

\* what the client wrote to a handle: the payloads of its accepted WRITEs
Written(task) == Concat([i \in 1..Len(task.wrote) |-> task.wrote[i].data])

IsPrefix(a, b) == Len(a) <= Len(b) /\ SubSeq(b, 1, Len(a)) = a

\* C5: for every write handle, the buffered bytes are a prefix of what the
\* client has written in its accepted WRITEs (in receipt order, whatever the
\* offsets); at most one PUT is issued for the handle, and that PUT carries the
\* concatenation of the payloads as its body, with its length as
\* ContentLength; an object the upload stored holds exactly those bytes.
C5_PutBodyIsWhatWasWritten ==
  \A k \in DOMAIN uploads :
    LET task == uploads[k]
    IN  /\ IsPrefix(Concat(task.chunks), Written(task))
        /\ task.puts <= 1
        /\ task.puts = 1 =>
             /\ task.body = Written(task)
             /\ task.contentLength = Len(Written(task))
        /\ (/\ task.result = "stored"
            /\ Has(store, task.fullname)
            /\ store[task.fullname].by = Origin("upload", k[1], k[2]))
             => store[task.fullname].body = Written(task)

\* C5 witness: an upload of two WRITEs, the second at offset 0 after the first
\* at offset 7, was stored
C5_TwoWritesStored ==
  \E k \in DOMAIN uploads :
    /\ uploads[k].result = "stored"
    /\ Len(uploads[k].wrote) = 2
    /\ uploads[k].wrote[1].offset = 7
    /\ uploads[k].wrote[2].offset = 0

\* the request answered last is a CLOSE of a write handle
ClosedUpload == done # NoReq /\ done.verb = "CLOSE" /\ done.upload.pc # "none"

\* C6: a CLOSE of a write handle is answered only once the upload has an
\* outcome: OK exactly when the PUT succeeded (the object is the upload's),
\* FAILURE exactly when the upload was rejected or its PUT failed; while the
\* upload has no outcome the CLOSE stays unanswered.
C6_CloseWaitsForPut ==
  /\ ClosedUpload =>
       /\ done.status \in {"OK", "FAILURE"}
       /\ done.upload.result # "none"
       /\ done.status = "OK" <=> done.upload.result = "stored"
       /\ done.status = "FAILURE" <=> done.upload.result \in {"rejected", "failed"}
  /\ \A c \in Conns : \A h \in DOMAIN clients[c].openFiles :
       (Has(uploads, <<c, h>>) /\ uploads[<<c, h>>].result = "none")
         => /\ ~clients[c].openFiles[h].uploadComplete
            /\ clients[c].openFiles[h].uploadError = "null"

\* C6 witness: a CLOSE that had to wait was answered OK after the PUT succeeded
C6_DeferredCloseAnsweredOk ==
  /\ ClosedUpload
  /\ step.name = "ClosePoll"
  /\ done.status = "OK"
  /\ done.upload.result = "stored"

\* C7: an upload that ends with zero buffered bytes sends no PUT: the step that
\* ends it sets the upload's error, emits upload-error and leaves the store
\* unchanged; the CLOSE of such a handle is answered FAILURE, and no PUT was
\* issued for it.
C7_EmptyUploadRejected ==
  [][/\ \A k \in DOMAIN uploads :
          (/\ uploads[k].pc = "ending"
           /\ uploads'[k].pc # "ending"
           /\ step'.name = "UploadEnd"
           /\ Concat(uploads[k].chunks) = <<>>)
            => /\ uploads'[k].result = "rejected"
               /\ uploads'[k].puts = 0
               /\ clients'[k[1]].openFiles[k[2]].uploadError # "null"
               /\ ~clients'[k[1]].openFiles[k[2]].uploadComplete
               /\ emitted' = <<Event("upload-error", uploads[k].username,
                                     uploads[k].fullname)>>
               /\ store' = store
     /\ (/\ done' # NoReq
         /\ done'.verb = "CLOSE"
         /\ done'.upload.pc # "none"
         /\ Concat(done'.upload.chunks) = <<>>)
          => /\ done'.status = "FAILURE"
             /\ done'.upload.puts = 0
             /\ done'.upload.result = "rejected"
             /\ store' = store]_vars

\* C7 witness: the CLOSE of a handle that received no WRITE was answered FAILURE
C7_EmptyCloseFailed ==
  /\ ClosedUpload
  /\ done.upload.wrote = <<>>
  /\ done.status = "FAILURE"

\* the upload whose object a READ's handle was opened on
SourceUpload(r) == uploads[<<r.seen.conn, r.seen.handle>>]

\* C8: a READ that is the first on its handle, at offset 0 and for at least as
\* many bytes as were written, on a handle opened on the object an upload
\* stored (CLOSE answered OK), with the object still that upload's and no
\* store error, is answered with exactly the bytes the client wrote.
C8_RoundTrip ==
  (/\ done # NoReq
   /\ done.verb = "READ"
   /\ done.pc = "answered"
   /\ done.first
   /\ done.seen.kind = "upload"
   /\ done.offset = 0
   /\ done.length >= Len(Written(SourceUpload(done)))
   /\ ~done.storeError
   /\ Has(store, done.fullname)
   /\ store[done.fullname].by = done.seen)
    => /\ done.status = "DATA"
       /\ done.reply = Written(SourceUpload(done))
       /\ done.reply # <<>>

\* C8 witness: two WRITEs were uploaded and a READ asking for more bytes than
\* were written got them back
C8_ReadBackTwoWrites ==
  /\ done # NoReq
  /\ done.verb = "READ"
  /\ done.status = "DATA"
  /\ done.seen.kind = "upload"
  /\ Len(SourceUpload(done).wrote) = 2
  /\ done.length > Len(done.reply)
  /\ done.reply = Written(SourceUpload(done))

(* ------------------------------------------------------------------ *)
(* Specification of the idle manager                                   *)
(* ------------------------------------------------------------------ *)

IdlePaths == {PathFile, PathRelativeMarker}
TickSteps == {IdleTimeoutMs \div 2, IdleTimeoutMs}
DisconnectEvents == {"session-close", "end", "close", "error"}

NextIdle ==
  \/ Listen
  \/ \E c \in Conns : Connection(c)
  \/ \E c \in Conns : Authentication(c, "password", strBob, strPw, TRUE, 2)
  \/ \E c \in Conns : Ready(c)
  \/ \E c \in Conns : Sftp(c)
  \/ \E c \in Conns, e \in DisconnectEvents : Disconnect(c, e)
  \/ \E t \in timers : IdleTimerFires(t)
  \/ \E u \in {strBob} : forceDisconnectUser(u)
  \/ disconnectAllUsers
  \/ stop
  \/ \E d \in TickSteps : Tick(d)
  \/ \E c \in Conns, p \in IdlePaths :
       Within(MaxRequests, c) /\ OPEN(c, p, {"READ"})
  \/ \E c \in Conns, i \in 1..MaxPending, ok \in BOOLEAN : OpenChecked(c, i, ok)
  \/ \E c \in Conns, i \in 1..MaxPending, ok \in BOOLEAN :
       OpenReadListed(c, i, ok, FALSE)
  \/ \E c \in Conns, h \in Handles :
       Within(MaxRequests, c) /\ READ(c, h, 0, 1)
  \/ \E c \in Conns, i \in 1..MaxPending, ok \in BOOLEAN : ReadGot(c, i, ok)
  \/ \E c \in Conns, h \in Handles :
       Within(MaxRequests, c) /\ WRITE(c, h, 0, <<"x">>, FALSE)
  \/ \E c \in Conns, h \in Handles :
       Within(MaxRequests, c) /\ CLOSE(c, h)
  \/ \E c \in Conns, p \in IdlePaths :
       Within(MaxRequests, c) /\ OPENDIR(c, p)
  \/ \E c \in Conns, i \in 1..MaxPending, ok \in BOOLEAN : OpenDirListed(c, i, ok, 2)
  \/ \E c \in Conns, h \in Handles :
       Within(MaxRequests, c) /\ READDIR(c, h)
  \/ \E c \in Conns, p \in IdlePaths :
       Within(MaxRequests, c) /\ REMOVE(c, p)
  \/ \E c \in Conns, i \in 1..MaxPending, ok \in BOOLEAN : RemoveDeleted(c, i, ok)
  \/ \E c \in Conns, p \in IdlePaths :
       Within(MaxRequests, c) /\ MKDIR(c, p)
  \/ \E c \in Conns, p \in IdlePaths :
       Within(MaxRequests, c) /\ RMDIR(c, p)
  \/ \E c \in Conns, p \in IdlePaths :
       Within(MaxRequests, c) /\ RENAME(c, p, PathFile)
  \/ \E c \in Conns, i \in 1..MaxPending, ok \in BOOLEAN : RenameCopied(c, i, ok)
  \/ \E c \in Conns, i \in 1..MaxPending, ok \in BOOLEAN : RenameDeleted(c, i, ok)
  \/ \E c \in Conns, p \in IdlePaths, v \in {"STAT", "LSTAT"} :
       Within(MaxRequests, c) /\ STAT(c, v, p)
  \/ \E c \in Conns, i \in 1..MaxPending, ok \in BOOLEAN :
       StatListed(c, i, ok, FALSE)
  \/ \E c \in Conns, p \in IdlePaths :
       Within(MaxRequests, c) /\ REALPATH(c, p)
  \/ \E c \in Conns, i \in 1..MaxPending, ok \in BOOLEAN : RealpathListed(c, i, ok)

SpecIdle == Init /\ [][NextIdle]_vars

(* ------------------------------------------------------------------ *)
(* Properties of the idle manager                                      *)
(* ------------------------------------------------------------------ *)

\* the timeouts that are armed for a user
ArmedFor(username) == {t \in timers : t.user = username}

\* C9: in every reachable state at most one idle timer is armed for each user.
C9_OneTimerPerUser ==
  \A u \in Usernames : Cardinality(ArmedFor(u)) <= 1

RequestVerbs ==
  {"OPEN", "READ", "WRITE", "OPENDIR", "READDIR", "CLOSE", "REMOVE", "RENAME",
   "STAT", "LSTAT", "REALPATH", "MKDIR", "RMDIR"}

\* C10: every step that receives an SFTP request, of any of the thirteen
\* verbs, records activity for the session's user: after it the user's last
\* activity is the current time, the user's mapped idle timer is armed to fire
\* 60 s from now, and the timer that was mapped before is no longer armed with
\* an earlier deadline.
C10_EveryRequestRecordsActivity ==
  [][step'.name \in RequestVerbs =>
       LET u == clients[step'.conn].user
       IN  /\ Has(userConnections', u)
           /\ userConnections'[u].lastActivity = now'
           /\ Has(idleTimers', u)
           /\ \E t \in timers' :
                t.id = idleTimers'[u] /\ t.user = u /\ t.due = now' + IdleTimeoutMs
           /\ \A t \in timers :
                (Has(idleTimers, u) /\ t.id = idleTimers[u]
                   /\ t.due # now' + IdleTimeoutMs) => t \notin timers']_vars

\* the clients that are connected as a user (authenticated, not ended or closed)
ConnectedAs(username) ==
  {c \in Conns : /\ clients[c].user = username
                 /\ clients[c].phase \in {"authenticated", "ready", "sftp", "session-closed"}}

\* C11: an idle period of a connected session produces user-idle exactly once,
\* and the firing leaves the connection and the user's tracking alone. As a
\* step property: (a) the step in which an idle timeout fires emits exactly one
\* user-idle event, changes neither the clients nor userConnections, and leaves
\* no further timeout armed for that user (a second one would fire again
\* without activity in between); (b) while a session of a user is up, a step
\* that leaves the user without an armed timeout is the one that emits
\* user-idle for the user (otherwise the idle period ends with no event).
C11_IdleFiresExactlyOnce ==
  [][/\ step'.name = "idle" =>
          /\ Len(emitted') = 1
          /\ emitted'[1].name = "user-idle"
          /\ clients' = clients
          /\ userConnections' = userConnections
          /\ {t \in timers' : t.user = emitted'[1].username} = {}
     /\ \A u \in Usernames :
          (/\ ArmedFor(u) # {}
           /\ {t \in timers' : t.user = u} = {}
           /\ \E c \in Conns : clients'[c].user = u /\ clients'[c].phase \in {"ready", "sftp"})
            => \E k \in 1..Len(emitted') :
                 emitted'[k].name = "user-idle" /\ emitted'[k].username = u]_vars

\* C12: a step in which the session of an authenticated user ends (session
\* close, client end, client close or client error) leaves no idle timeout
\* armed for the user (so none can fire before new activity arms one), leaves
\* the user in neither tracking map, and emits exactly
\* client-disconnected(username, cause).
C12_DisconnectCancelsIdle ==
  [][(step'.name \in DisconnectEvents /\ clients[step'.conn].user # NoUser) =>
       LET u == clients[step'.conn].user
       IN  /\ {t \in timers' : t.user = u} = {}
           /\ ~Has(idleTimers', u)
           /\ ~Has(userConnections', u)
           /\ emitted' = <<Event("client-disconnected", u, step'.name)>>]_vars

\* C13: forceDisconnectUser(username) closes the connection of every client
\* connected as username and leaves the user untracked; disconnectAllUsers()
\* closes the connection of every authenticated client and leaves both
\* tracking maps empty.
C13_ForcedDisconnectCloses ==
  [][/\ \A u \in Usernames :
          forceDisconnectUser(u) =>
            /\ \A c \in ConnectedAs(u) : clients'[c].phase \in {"ended", "closed"}
            /\ ~Has(idleTimers', u)
            /\ ~Has(userConnections', u)
     /\ disconnectAllUsers =>
          /\ \A u \in Usernames : \A c \in ConnectedAs(u) :
               clients'[c].phase \in {"ended", "closed"}
          /\ idleTimers' = EmptyMap
          /\ userConnections' = EmptyMap]_vars


(* ------------------------------------------------------------------ *)
(* Specification of directories and handles                            *)
(* ------------------------------------------------------------------ *)

\* requests a client keeps in flight when it pipelines
MaxInFlight == 2
\* requests one session sends while it browses
MaxDirRequests == 3

aTxt == <<"a", ".", "t", "x", "t">>
bPdf == <<"b", ".", "p", "d", "f">>
cPdf == <<"c", ".", "p", "d", "f">>
strX == <<"x">>

\* the bucket as the server finds it: the registry plus objects already there
WithObjects(keys) ==
  [k \in DOMAIN InitStore \cup keys |->
     IF k \in DOMAIN InitStore THEN InitStore[k]
     ELSE [body |-> <<"1">>, by |-> Origin("bucket", 0, 0)]]

\* objects of bob's home: a file at its root, and three files of ledgers/x
HomeFile == {userPathOf(strBob) \o PathFile}
LedgerFiles ==
  {userPathOf(strBob) \o SlashLedgersSlash \o strX \o Root \o f : f \in {aPdf, bPdf, cPdf}}

\* objects around ledgers: a key that continues the name of the directory, a
\* legacy marker, and a file named as a directory that has a child
LedgerNeighbours ==
  {userPathOf(strBob) \o SlashLedgers \o aPdf,
   userPathOf(strBob) \o SlashLedgers \o LegacyMarker,
   userPathOf(strBob) \o SlashLedgersSlash \o strX,
   userPathOf(strBob) \o SlashLedgersSlash \o strX \o Root \o aPdf}

Buckets ==
  {InitStore, WithObjects(HomeFile), WithObjects(LedgerFiles), WithObjects(LedgerNeighbours)}

InitDir ==
  /\ accessControl \in AccessControlModules
  /\ createDefaultSubdirs = TRUE
  /\ window = MaxInFlight
  /\ store \in Buckets
  /\ lastUploadTime = 0
  /\ userConnections = EmptyMap
  /\ idleTimers = EmptyMap
  /\ timers = {}
  /\ now = IdleTimeoutMs
  /\ ticks = 0
  /\ ssh = "null"
  /\ clients = [c \in Conns |-> InitClient]
  /\ reqs = [c \in Conns |-> <<>>]
  /\ uploads = EmptyMap
  /\ done = NoReq
  /\ step = [name |-> "constructor", conn |-> 0]
  /\ emitted = <<>>
  /\ reqid = [c \in Conns |-> 0]

DirPaths == {Root, SlashLedgers}
PathLedgersText == SlashLedgersSlash \o aTxt
PathBobLedgersText == PathBobLedgers \o Root \o aTxt
PathLedgersUpper == <<"/", "L", "e", "d", "g", "e", "r", "s", "/", "A", ".", "P", "D", "F">>
OpenPaths ==
  {PathFile, PathLedgersFile, PathLedgersText, PathBobLedgersText, SlashLedgersSlash,
   PathLedgersUpper}

NextDir ==
  \/ Listen
  \/ \E c \in Conns : Connection(c)
  \/ \E c \in Conns, nPut \in {0, 2} :
       Authentication(c, "password", strBob, strPw, TRUE, nPut)
  \/ \E c \in Conns : Ready(c)
  \/ \E c \in Conns : Sftp(c)
  \/ \E c \in Conns, p \in DirPaths :
       Within(MaxDirRequests, c) /\ OPENDIR(c, p)
  \/ \E c \in Conns, i \in 1..MaxInFlight, ok \in BOOLEAN, nPut \in {0, 2} :
       OpenDirListed(c, i, ok, nPut)
  \/ \E c \in Conns, h \in Handles :
       Within(MaxDirRequests, c) /\ READDIR(c, h)
  \/ \E c \in Conns, p \in OpenPaths, f \in {{"WRITE"}, {"READ"}} :
       Within(MaxDirRequests, c) /\ OPEN(c, p, f)
  \/ \E c \in Conns, i \in 1..MaxInFlight, ok \in BOOLEAN : OpenChecked(c, i, ok)
  \/ \E c \in Conns, i \in 1..MaxInFlight, ok \in BOOLEAN :
       OpenReadListed(c, i, ok, FALSE)
  \/ \E c \in Conns, h \in Handles :
       Within(MaxDirRequests, c) /\ CLOSE(c, h)
  \/ \E c \in Conns, i \in 1..MaxInFlight : ClosePoll(c, i)
  \/ \E c \in Conns, h \in Handles : UploadEnd(c, h)

SpecDir == InitDir /\ [][NextDir]_vars

(* ------------------------------------------------------------------ *)
(* Properties of directories and handles                               *)
(* ------------------------------------------------------------------ *)

\* the directory handle a READDIR that was just answered named
ListedDir == clients[done.conn].openDirs[done.handle]

\* a READDIR was just answered with a listing
Listed ==
  /\ done.verb = "READDIR"
  /\ done.status = "NAME"
  /\ Has(clients[done.conn].openDirs, done.handle)

\* C14: a READDIR on a handle that OPENDIR '/' opened returns exactly three
\* entries, named as the user, ledgers and invoices, each a directory with mode
\* 0755, whatever objects the bucket holds under the user's home.
C14_RootListingIsSynthetic ==
  (Listed /\ ListedDir.fullname = mapKey(userPathOf(clients[done.conn].user), Root)) =>
     /\ Len(done.reply) = 3
     /\ {done.reply[k] : k \in 1..Len(done.reply)} =
          {SyntheticDir(clients[done.conn].user), SyntheticDir(ledgers), SyntheticDir(invoices)}

\* C15: a READDIR on an open directory handle returns the handle's entries if
\* no listing was sent for the handle before and EOF if one was, so that no
\* handle is ever served more than one listing; the READDIR step issues no
\* store call and leaves the bucket as it is.
C15_ReaddirOnceThenEof ==
  [][(step'.name = "READDIR" /\ Has(clients[step'.conn].openDirs, done'.handle)) =>
       LET state == clients[step'.conn].openDirs[done'.handle]
       IN  /\ state.served = 0 =>
                /\ done'.status = "NAME"
                /\ done'.reply = listDirectoryContents(state)
                /\ clients'[step'.conn].openDirs[done'.handle].served = 1
           /\ state.served > 0 =>
                /\ done'.status = "EOF"
                /\ clients'[step'.conn].openDirs[done'.handle].served = state.served
           /\ done'.calls = <<>>
           /\ store' = store]_vars

\* a second READDIR on a handle whose listing was sent has been answered EOF
C15_SecondReaddirEof ==
  /\ done.verb = "READDIR"
  /\ done.status = "EOF"
  /\ Has(clients[done.conn].openDirs, done.handle)
  /\ ListedDir.served = 1
  /\ Len(ListedDir.listings) > 0

\* the handle values a session holds: those of the two tables and those taken
\* from the counter for a request that still waits for its LIST
HeldHandles(c) ==
  [files |-> DOMAIN clients[c].openFiles,
   dirs |-> DOMAIN clients[c].openDirs,
   promised |-> {i \in 1..Len(reqs[c]) : reqs[c][i].handleId >= 0
                                          /\ reqs[c][i].verb \in {"OPEN", "OPENDIR"}}]

\* handle.writeUInt32BE(handleId, 0, true): a handle is four bytes on the wire,
\* two half words of sixteen bits
HalfWord == 65536
IsUInt32(h) == h >= 0 /\ h \div HalfWord < HalfWord

\* C16: in every reachable state the handle values of one session are pairwise
\* different across the open-file table, the open-directory table and the
\* handles already taken for requests that wait for the store, and each lies
\* in [0, 2^32) and below the session's counter.
C16_HandlesUnique ==
  \A c \in Conns :
    LET held == HeldHandles(c)
        taken == {reqs[c][i].handleId : i \in held.promised}
    IN  /\ held.files \cap held.dirs = {}
        /\ taken \cap (held.files \cup held.dirs) = {}
        /\ Cardinality(taken) = Cardinality(held.promised)
        /\ \A h \in held.files \cup held.dirs \cup taken :
             IsUInt32(h) /\ h < clients[c].handleCount

\* a file handle is open while a directory handle that was taken before the
\* file's is open or still waits for its LIST, and the OPEN was received first
C16_FileOpenedAroundDirectory ==
  \E c \in Conns :
    /\ done.verb = "OPEN"
    /\ done.status = "HANDLE"
    /\ done.conn = c
    /\ done.handleId = 1
    /\ done.reqid = 0
    /\ Has(clients[c].openFiles, 1)
    /\ \/ Has(clients[c].openDirs, 0)
       \/ \E i \in 1..Len(reqs[c]) : reqs[c][i].verb = "OPENDIR" /\ reqs[c][i].handleId = 0

\* C17: the entry list a READDIR returns contains no two entries with the same
\* filename, whatever objects the LIST of the directory returned.
C17_NoDuplicateNames ==
  (done.verb = "READDIR" /\ done.status = "NAME") =>
     \A j, k \in 1..Len(done.reply) :
        done.reply[j].filename = done.reply[k].filename => j = k

\* a listing was returned for a handle whose LIST gave two objects that show
\* under the same name
C17_SameNameListedOnce ==
  /\ Listed
  /\ \E j, k \in 1..Len(ListedDir.listings) :
        /\ j # k
        /\ DirEntry(ListedDir.listings[j], ListedDir.fullname).filename
             = DirEntry(ListedDir.listings[k], ListedDir.fullname).filename
  /\ Len(done.reply) < Len(ListedDir.listings)

\* the directories the file-type policy covers for a user: /ledgers and
\* /invoices, at the top level and under /<username>
PolicyDirs(username) ==
  {pre \o d : pre \in {<<>>, Root \o username}, d \in {SlashLedgers, SlashInvoices}}

\* the path lies in a policy directory and does not name a .pdf file in it
NotPdfInPolicyDir(username, path) ==
  LET lower == ToLowerCase(path)
  IN  \E d \in PolicyDirs(username) :
        \/ lower = d
        \/ lower = d \o Root
        \/ StartsWith(lower, d \o Root) /\ ~EndsWith(lower, dotPdf)

\* C18: an OPEN with the WRITE flag whose path lies under /ledgers or
\* /invoices (top-level or under /<username>) and does not name a file ending
\* in .pdf (in any case), or names the directory itself, is answered
\* PERMISSION_DENIED: it is never passed on to the store and never given a handle.
C18_OnlyPdfInPolicyDirs ==
  /\ (done.verb = "OPEN" /\ "WRITE" \in done.flags
        /\ NotPdfInPolicyDir(clients[done.conn].user, done.path))
       => done.status = "PERMISSION_DENIED"
  /\ \A c \in Conns : \A i \in 1..Len(reqs[c]) :
       (reqs[c][i].verb = "OPEN" /\ "WRITE" \in reqs[c][i].flags)
         => ~NotPdfInPolicyDir(clients[c].user, reqs[c][i].path)

(* ------------------------------------------------------------------ *)
(* Specification of the access policy as a function                    *)
(* ------------------------------------------------------------------ *)

\* segments of the paths the policy is asked about
MaxSegments == 3

strBobby == strBob \o <<"b", "y">>
PolicySegments == {<<>>, strBob, strBobby, strUser, ledgers, invoices, aPdf, dotdot}

\* the paths of up to MaxSegments segments, with and without a leading slash
PolicyPaths ==
  LET relative == UNION {{Join(q, "/") : q \in [1..n -> PolicySegments]} : n \in 1..MaxSegments}
  IN  relative \cup {Root \o q : q \in relative}

\* _isPathAllowed(username, path): the server asks its access-control module
IsPathAllowedCall(username, path) ==
  /\ done' = [verb |-> "isPathAllowed", username |-> username, path |-> path,
              allowed |-> isPathAllowed(accessControl, username, path)]
  /\ step' = [name |-> "isPathAllowed", conn |-> 0]
  /\ emitted' = <<>>
  /\ UNCHANGED <<reqid, accessControl, createDefaultSubdirs,
                 window, store, lastUploadTime, userConnections,
                 idleTimers, timers, now, ticks, ssh, clients, reqs, uploads>>

\* one question per behaviour: the function keeps no state between calls
NextPolicy ==
  \E u \in Usernames, p \in PolicyPaths : done = NoReq /\ IsPathAllowedCall(u, p)

SpecPolicy == Init /\ [][NextPolicy]_vars

(* ------------------------------------------------------------------ *)
(* Properties of the access policy                                     *)
(* ------------------------------------------------------------------ *)

\* a virtual path begins with a slash
VirtualPath(path) == IF StartsWith(path, Root) THEN path ELSE Root \o path

\* the four rules of admission, for an allow-list given as a sequence
Admitted(allowList, username, p) ==
  \/ \E i \in 1..Len(allowList) : p = allowList[i]
  \/ \E i \in 1..Len(allowList) : StartsWith(p, allowList[i] \o Root)
  \/ p = Root \o username
  \/ StartsWith(p, Root \o username \o Root)
  \/ p # Root /\ Len(Split(p, "/")) = 2

DefaultAllowList == <<Root, SlashLedgers, SlashInvoices>>

\* C19: isPathAllowed(username, p) is true exactly when the virtual path p
\* matches an entry of the user's allow-list, begins with an entry followed by
\* a slash, is the user's own directory /<username> or lies under it, or is a
\* top-level single-segment path; and a user without an allow-list of its own
\* has the default allow-list ['/', '/ledgers', '/invoices'].
C19_AdmittedByTheFourRules ==
  done.verb = "isPathAllowed" =>
    LET allowList == IF done.username = strUser
                     THEN allowedPathsOf(accessControl, done.username)
                     ELSE DefaultAllowList
    IN  done.allowed = Admitted(allowList, done.username, VirtualPath(done.path))

\* the requests of a session that are waiting or were just answered
RequestsOf(c) ==
  {reqs[c][i] : i \in 1..Len(reqs[c])}
    \cup (IF done # NoReq /\ done.verb \in RequestVerbs /\ done.conn = c THEN {done} ELSE {})

\* the home of a user in the bucket: `${userBasePath}/${username}/`
HomePrefix(username) == userPathOf(username) \o Root

\* C20: every key and every prefix that a request of a user passes to the
\* store (to LIST, GET, PUT, DELETE, and as source and destination of COPY)
\* begins with the user's home prefix <userBasePath>/<username>/, whatever
\* path the request names, and so does the key of every upload.
C20_KeysStayInHome ==
  /\ \A c \in Conns : \A r \in RequestsOf(c) :
       LET home == HomePrefix(clients[c].user)
       IN  /\ \A k \in 1..Len(r.calls) : StartsWith(r.calls[k].key, home)
           /\ (r.verb = "RENAME" /\ r.calls # <<>>) =>
                StartsWith(r.fullname, home) /\ StartsWith(r.fullnameNew, home)
  /\ \A k \in DOMAIN uploads :
       StartsWith(uploads[k].fullname, HomePrefix(uploads[k].username))

\* a RENAME of bob whose old path climbs towards the home of user has sent its COPY
C20_RenameAcrossHomesSent ==
  /\ done.verb = "RENAME"
  /\ done.path = PathAboveHome
  /\ clients[done.conn].user = strBob
  /\ Len(done.calls) >= 1
  /\ done.calls[1].op = "COPY"


\* the segments from the i-th on climb above the directory at the given depth
RECURSIVE ClimbsAbove(_, _, _)
ClimbsAbove(segs, i, depth) ==
  IF i > Len(segs) THEN FALSE
  ELSE IF segs[i] = dotdot THEN depth = 0 \/ ClimbsAbove(segs, i + 1, depth - 1)
  ELSE IF segs[i] = <<>> \/ segs[i] = <<".">> THEN ClimbsAbove(segs, i + 1, depth)
  ELSE ClimbsAbove(segs, i + 1, depth + 1)

\* the '..' segments of the path lead out of the user's home
EscapesHome(path) == ClimbsAbove(Split(path, "/"), 1, 0)

\* C21: a request of a path verb whose path has '..' segments that lead out
\* of the user's home is answered PERMISSION_DENIED with no store call: it is
\* never left waiting for the store, and it is not mapped to another key.
C21_EscapingPathsRefused ==
  \A c \in Conns : \A r \in RequestsOf(c) :
    (r.verb \in PathVerbs /\ (EscapesHome(r.path) \/ EscapesHome(r.newPath)))
      => (r.status = "PERMISSION_DENIED" /\ r.calls = <<>>)

\* an OPEN for WRITE of a .pdf name directly under /ledgers or /invoices
PolicyDirUpload(r) ==
  /\ r.verb = "OPEN"
  /\ "WRITE" \in r.flags
  /\ StartsWith(r.path, SlashLedgersSlash) \/ StartsWith(r.path, SlashInvoicesSlash)
  /\ Len(Split(r.path, "/")) = 3
  /\ EndsWith(r.path, dotPdf)

\* the key of the upload is the user's home followed by the path it was opened on
PolicyDirKey(task) ==
  \/ StartsWith(task.fullname, userPathOf(task.username) \o SlashLedgersSlash)
  \/ StartsWith(task.fullname, userPathOf(task.username) \o SlashInvoicesSlash)

\* C22: for every user, an upload to '/ledgers/<name>.pdf' (or
\* '/invoices/<name>.pdf') is admitted by the access policy: its OPEN for
\* WRITE is not answered PERMISSION_DENIED; when the PUT of the n > 0 bytes
\* written succeeds, the store holds the key <home>/ledgers/<name>.pdf with
\* those n bytes, the time of the last upload is the present, file-uploaded
\* (with that key) and directory-changed are emitted, and the CLOSE of the
\* handle is answered OK.
C22_PolicyDirUploadStored ==
  [][/\ \A c \in Conns : \A r \in RequestsOf(c)' :
          PolicyDirUpload(r) => r.status # "PERMISSION_DENIED"
     /\ \A k \in DOMAIN uploads :
          (/\ uploads[k].pc = "putting"
           /\ uploads'[k].result = "stored"
           /\ PolicyDirKey(uploads[k]))
            => /\ Has(store', uploads[k].fullname)
               /\ Len(Written(uploads[k])) > 0
               /\ store'[uploads[k].fullname].body = Written(uploads[k])
               /\ lastUploadTime' = now
               /\ emitted' = <<Event("file-uploaded", uploads[k].username, uploads[k].fullname),
                               Event("directory-changed", uploads[k].username,
                                     PathDirname(uploads[k].fullname))>>
     /\ (/\ done' # done
         /\ done'.verb = "CLOSE"
         /\ done'.upload.result = "stored"
         /\ PolicyDirKey(done'.upload))
          => done'.status = "OK"
    ]_vars

(* ------------------------------------------------------------------ *)
(* Specification of authentication                                     *)
(* ------------------------------------------------------------------ *)

\* the server is constructed with provisioning enabled or disabled
\* (SFTP_CREATE_DEFAULT_SUBDIRS)
InitAuth ==
  /\ accessControl \in AccessControlModules
  /\ createDefaultSubdirs \in BOOLEAN
  /\ window = MaxPending
  /\ store = InitStore
  /\ lastUploadTime = 0
  /\ userConnections = EmptyMap
  /\ idleTimers = EmptyMap
  /\ timers = {}
  /\ now = IdleTimeoutMs
  /\ ticks = 0
  /\ ssh = "null"
  /\ clients = [c \in Conns |-> InitClient]
  /\ reqs = [c \in Conns |-> <<>>]
  /\ uploads = EmptyMap
  /\ done = NoReq
  /\ step = [name |-> "constructor", conn |-> 0]
  /\ emitted = <<>>
  /\ reqid = [c \in Conns |-> 0]

\* what a client offers when it authenticates
AuthMethods == {"password", "publickey", "none", "keyboard-interactive"}
AuthUsernames == {strBob, <<>>}
AuthPasswords == {strPw, strBad, <<>>}

NextAuth ==
  \/ Listen
  \/ \E c \in Conns : Connection(c)
  \/ \E c \in Conns, m \in AuthMethods, u \in AuthUsernames, p \in AuthPasswords,
        headOk \in BOOLEAN, nPut \in 0..Len(defaultSubdirectories) :
       Authentication(c, m, u, p, headOk, nPut)
  \/ \E c \in Conns : Ready(c)
  \/ \E c \in Conns : Sftp(c)
  \/ \E c \in Conns, e \in DisconnectEvents : Disconnect(c, e)

SpecAuth == InitAuth /\ [][NextAuth]_vars

(* ------------------------------------------------------------------ *)
(* Properties of authentication                                        *)
(* ------------------------------------------------------------------ *)

\* the step handles an authentication attempt
Attempt == step'.name = "authentication"

\* C23: an attempt is accepted only by the password method and only when the
\* HEAD of auth/<username>_<password> succeeds: a HEAD is sent exactly when the
\* method is password and neither credential is missing, it is the HEAD of
\* that key, and the attempt is accepted exactly when it succeeds (the object
\* exists); NotFound, another store error, a missing username or password and
\* every other method are rejected; a rejected attempt authenticates nobody
\* and leaves the connection tracking and the idle timers as they were.
C23_OnlyPasswordWithRegisteredKey ==
  [][Attempt =>
       LET a == done'
           c == a.conn
           sent == a.method = "password" /\ a.username # <<>> /\ a.password # <<>>
       IN  /\ a.status \in {"accept", "reject"}
           /\ (a.head # "none") = sent
           /\ sent => a.calls[1] = Call("HEAD", authPrefix \o a.username \o <<"_">> \o a.password)
           /\ ~sent => a.calls = <<>>
           /\ a.head = "ok" => Has(store, authPrefix \o a.username \o <<"_">> \o a.password)
           /\ (a.status = "accept") = (a.method = "password" /\ a.head = "ok")
           /\ a.status = "accept" =>
                clients'[c].phase = "authenticated" /\ clients'[c].user = a.username
           /\ a.status = "reject" =>
                /\ UNCHANGED <<clients, store, userConnections, idleTimers, timers>>
                /\ clients'[c].user = NoUser
    ]_vars

\* C23 witness: a password attempt with a password that is not registered
\* was rejected after its HEAD ended NotFound
C23_WrongPasswordRejected ==
  /\ done.verb = "authentication"
  /\ done.method = "password"
  /\ done.username = strBob
  /\ done.password = strBad
  /\ done.head = "NotFound"
  /\ done.status = "reject"
  /\ userConnections = EmptyMap

\* the marker PUTs of an accepted attempt, in the order they were issued
MarkerPuts(a) == SubSeq(a.calls, 2, Len(a.calls))

\* C24: on every accepted authentication with provisioning enabled, a PUT of
\* the marker <userBasePath>/<username>/<name>/.directory has been issued for
\* each configured subdirectory (invoices, ledgers) by the time the attempt
\* is accepted; with provisioning disabled no marker PUT is issued.
C24_MarkerPutForEachSubdirectory ==
  [][(Attempt /\ done'.status = "accept") =>
       IF createDefaultSubdirs
       THEN MarkerPuts(done') =
              [i \in 1..Len(defaultSubdirectories) |->
                 Call("PUT", userBasePath \o Root \o done'.username \o Root
                               \o defaultSubdirectories[i] \o DirectoryMarker)]
       ELSE MarkerPuts(done') = <<>> /\ store' = store
    ]_vars

(* ------------------------------------------------------------------ *)
(* Specification of listings after an upload                           *)
(* ------------------------------------------------------------------ *)

\* the requests a session sends
MaxStaleRequests == 5

\* the clock steps: within the consistency window and past it
StaleTicks == {RecentUploadMs \div 2, RecentUploadMs}

InitStale ==
  /\ accessControl \in AccessControlModules
  /\ createDefaultSubdirs = TRUE
  /\ window = MaxInFlight
  /\ store = InitStore
  /\ lastUploadTime = 0
  /\ userConnections = EmptyMap
  /\ idleTimers = EmptyMap
  /\ timers = {}
  /\ now = IdleTimeoutMs
  /\ ticks = 0
  /\ ssh = "null"
  /\ clients = [c \in Conns |-> InitClient]
  /\ reqs = [c \in Conns |-> <<>>]
  /\ uploads = EmptyMap
  /\ done = NoReq
  /\ step = [name |-> "constructor", conn |-> 0]
  /\ emitted = <<>>
  /\ reqid = [c \in Conns |-> 0]

\* a client uploads /a.pdf, lists its root and removes the file, while time passes
NextStale ==
  \/ Listen
  \/ \E c \in Conns : Connection(c)
  \/ \E c \in Conns : Authentication(c, "password", strBob, strPw, TRUE, 2)
  \/ \E c \in Conns : Ready(c)
  \/ \E c \in Conns : Sftp(c)
  \/ \E c \in Conns : Within(MaxStaleRequests, c) /\ OPEN(c, PathFile, {"WRITE"})
  \/ \E c \in Conns, i \in 1..MaxInFlight : OpenChecked(c, i, TRUE)
  \/ \E c \in Conns, h \in Handles :
       Within(MaxStaleRequests, c) /\ WRITE(c, h, 0, <<"x">>, FALSE)
  \/ \E c \in Conns, h \in Handles : Within(MaxStaleRequests, c) /\ CLOSE(c, h)
  \/ \E c \in Conns, i \in 1..MaxInFlight : ClosePoll(c, i)
  \/ \E c \in Conns, h \in Handles : UploadEnd(c, h)
  \/ \E c \in Conns, h \in Handles, ok \in BOOLEAN : UploadPutResolved(c, h, ok)
  \/ \E c \in Conns : Within(MaxStaleRequests, c) /\ OPENDIR(c, Root)
  \/ \E c \in Conns, i \in 1..MaxInFlight, ok \in BOOLEAN : OpenDirListed(c, i, ok, 2)
  \/ \E c \in Conns, i \in 1..MaxInFlight, ok \in BOOLEAN : OpenDirRelisted(c, i, ok)
  \/ \E c \in Conns : Within(MaxStaleRequests, c) /\ REMOVE(c, PathFile)
  \/ \E c \in Conns, i \in 1..MaxInFlight, ok \in BOOLEAN : RemoveDeleted(c, i, ok)
  \/ \E d \in StaleTicks : Tick(d)

SpecStale == InitStale /\ [][NextStale]_vars

(* ------------------------------------------------------------------ *)
(* Properties of listings after an upload                              *)
(* ------------------------------------------------------------------ *)

\* the PUT of an upload completed less than ten seconds ago
RecentPut ==
  \E k \in DOMAIN uploads :
    uploads[k].result = "stored" /\ now - uploads[k].at < RecentUploadMs

\* the names READDIR would send for a directory handle
NamesOf(state) ==
  {listDirectoryContents(state)[i].filename : i \in 1..Len(listDirectoryContents(state))}

ReadReceived ==
  IF done' # NoReq THEN done' ELSE reqs'[step'.conn][Len(reqs'[step'.conn])]

Min(a, b) == IF a <= b THEN a ELSE b

\* C26: a READ(offset, length) on a read handle of size s is answered EOF
\* with no store call when the handle is marked read, when offset >= s, or
\* when the length cut at s is 0, and the mark stays as it was; otherwise
\* exactly one GET is issued, for the bytes offset .. offset + min(length,
\* s - offset) - 1 of the handle's key, and the handle is marked read exactly
\* when offset + min(length, s - offset) reaches s.
C26_ReadCutAtSize ==
  [][step'.name = "READ" =>
       LET c == step'.conn
           r == ReadReceived
           files == clients[c].openFiles
           state == files[r.handle]
           s == state.size
           n == Min(r.length, s - r.offset)
       IN  (/\ r.handle >= 0
            /\ Has(files, r.handle)
            /\ "READ" \in state.flags)
             => IF state.read \/ r.offset >= s \/ n = 0
                THEN /\ done' # NoReq
                     /\ done'.status = "EOF"
                     /\ done'.calls = <<>>
                     /\ reqs' = reqs
                     /\ clients'[c].openFiles[r.handle].read = state.read
                ELSE /\ done' = NoReq
                     /\ reqs'[c] = Append(reqs[c], r)
                     /\ r.calls = <<GetRange(state.fullname, r.offset, r.offset + n - 1)>>
                     /\ clients'[c].openFiles[r.handle].read = (r.offset + n = s)
    ]_vars

\* C26 witness: a READ for more bytes than the file has left waits for a GET
\* of fewer bytes than it named, and its handle is marked read
C26_CutReadWaits ==
  \E c \in Conns : \E i \in 1..Len(reqs[c]) :
    /\ reqs[c][i].verb = "READ"
    /\ reqs[c][i].pc = "readFile"
    /\ reqs[c][i].offset = 1
    /\ reqs[c][i].calls[1].last - reqs[c][i].calls[1].first + 1 < reqs[c][i].length
    /\ clients[c].openFiles[reqs[c][i].handle].read

\* C27: a READ answered FAILURE because its GET failed leaves the handle as
\* it was before the READ: the handle is not marked read, so the same READ
\* sent again is not answered EOF.
C27_FailedReadLeavesHandle ==
  [][/\ (/\ step'.name = "ReadGot"
         /\ done'.status = "FAILURE"
         /\ done'.storeError
         /\ Has(clients'[done'.conn].openFiles, done'.handle))
          => ~clients'[done'.conn].openFiles[done'.handle].read
     /\ (/\ done # NoReq
         /\ done.verb = "READ"
         /\ done.status = "FAILURE"
         /\ done.storeError
         /\ step'.name = "READ"
         /\ done' # NoReq
         /\ done'.handle = done.handle
         /\ done'.offset = done.offset
         /\ done'.length = done.length)
          => done'.status # "EOF"
    ]_vars

(* ------------------------------------------------------------------ *)
(* Properties of paths that name no file                               *)
(* ------------------------------------------------------------------ *)

\* the key a request's path is mapped to
KeyOf(r) == mapKey(userPathOf(clients[r.conn].user), r.path)

\* the bucket holds a marker or a child of the key
NamesDirectory(key) == \E k \in DOMAIN store : k # key /\ StartsWith(k, key \o Root)

\* an OPEN for READ, a STAT or an LSTAT of an admitted path was just answered
\* and no call of the store failed
Looked ==
  /\ done # NoReq
  /\ \/ done.verb = "OPEN" /\ "READ" \in done.flags
     \/ done.verb \in {"STAT", "LSTAT"}
  /\ done.pc = "answered"
  /\ ~Denied(done)
  /\ ~done.storeError

\* C28: an OPEN for READ, a STAT or an LSTAT of an admitted path at which the
\* bucket holds no object, no marker and no child (the LIST returns nothing,
\* or nothing that matches) is answered NO_SUCH_FILE, not FAILURE; an OPEN of
\* a path that names a directory is answered NO_SUCH_FILE too; in both cases
\* no handle is issued.
C28_MissingPathIsNoSuchFile ==
  /\ (Looked /\ ~Has(store, KeyOf(done)) /\ ~NamesDirectory(KeyOf(done)))
       => done.status = "NO_SUCH_FILE"
  /\ (Looked /\ done.verb = "OPEN" /\ NamesDirectory(KeyOf(done)))
       => done.status = "NO_SUCH_FILE"
  /\ (Looked /\ done.verb = "OPEN" /\ done.status = "NO_SUCH_FILE")
       => clients[done.conn].openFiles = EmptyMap

(* ------------------------------------------------------------------ *)
(* Properties of the entries of a listing                              *)
(* ------------------------------------------------------------------ *)

\* the prefix of the keys that lie under a directory key
Under(fullname) == IF EndsWith(fullname, Root) THEN fullname ELSE fullname \o Root

\* the bucket holds the key P/<name> or a key under P/<name>/
HeldUnder(fullname, name) ==
  \E k \in DOMAIN store :
    \/ k = Under(fullname) \o name
    \/ StartsWith(k, Under(fullname) \o name \o Root)

\* C29: every entry of the listing of a directory handle with key P is a name
\* immediately under P: a single segment <name> for which the bucket holds
\* P/<name> or a key under P/<name>/; a key that only has P as a prefix of its
\* text, with no '/' after it, gives no entry, and neither does the legacy
\* marker P/.dir.
C29_EntriesAreChildren ==
  Listed =>
    \A j \in 1..Len(done.reply) :
      LET name == done.reply[j].filename
      IN  /\ name # <<>>
          /\ ~Includes(name, Root)
          /\ name # dotDir
          /\ HeldUnder(ListedDir.fullname, name)

\* C30: when the bucket holds both the file key P/<name> and a marker or a
\* child under P/<name>/, the one entry of the listing with that name is a
\* directory.
C30_DirectoryWinsOverFile ==
  Listed =>
    \A j \in 1..Len(done.reply) :
      LET name == done.reply[j].filename
          key == Under(ListedDir.fullname) \o name
      IN  (Has(store, key) /\ NamesDirectory(key)) => done.reply[j].mode = "0755"

(* ------------------------------------------------------------------ *)
(* Properties of RENAME                                                *)
(* ------------------------------------------------------------------ *)

\* the RENAME whose COPY the step resolves
RenameCopying(c, i) ==
  /\ step'.name = "RenameCopied"
  /\ step'.conn = c
  /\ i \in 1..Len(reqs[c])
  /\ reqs[c][i].pc = "copy"
  /\ \/ Len(reqs'[c]) < Len(reqs[c]) /\ done' = Answered(reqs[c][i], "FAILURE", <<>>)
     \/ Len(reqs'[c]) = Len(reqs[c]) /\ reqs'[c][i] # reqs[c][i]

\* C31: a RENAME sends the COPY of the old key to the new key first and the
\* DELETE of the old key only when that COPY has succeeded: a failed COPY is
\* answered FAILURE with no DELETE sent, no event, and the bucket as it was;
\* a RENAME is answered OK, with the file-renamed event, only by the step in
\* which its DELETE succeeded, after its COPY; every DELETE of a RENAME comes
\* after its COPY.
C31_DeleteOnlyAfterCopy ==
  [][/\ \A c \in Conns : \A r \in RequestsOf(c)' :
          r.verb = "RENAME" =>
            /\ r.calls # <<>> => r.calls[1] = Call("COPY", r.fullnameNew)
            /\ Len(r.calls) <= 2
            /\ Len(r.calls) = 2 => r.calls[2] = Call("DELETE", r.fullname)
            /\ r.status = "OK" => Len(r.calls) = 2
     /\ \A c \in Conns : \A i \in 1..Len(reqs[c]) :
          RenameCopying(c, i) =>
            IF done' # NoReq
            THEN /\ done'.status = "FAILURE"
                 /\ done'.calls = <<Call("COPY", reqs[c][i].fullnameNew)>>
                 /\ store' = store
                 /\ emitted' = <<>>
            ELSE /\ Has(store, reqs[c][i].fullname)
                 /\ Has(store', reqs[c][i].fullnameNew)
                 /\ store'[reqs[c][i].fullnameNew].body = store[reqs[c][i].fullname].body
                 /\ Has(store', reqs[c][i].fullname)
                 /\ store'[reqs[c][i].fullname] = store[reqs[c][i].fullname]
                 /\ emitted' = <<>>
     /\ (done' # done /\ done'.verb = "RENAME" /\ done'.status = "OK") =>
          /\ step'.name = "RenameDeleted"
          /\ emitted' = <<Event("file-renamed", clients[done'.conn].user, done'.fullnameNew)>>
          /\ ~Has(store', done'.fullname)
     /\ (\E j \in 1..Len(emitted') : emitted'[j].name = "file-renamed") =>
          (done'.verb = "RENAME" /\ done'.status = "OK")
    ]_vars

\* C31 witness: the COPY of a RENAME whose source is in the bucket failed; the
\* RENAME was answered FAILURE after that one call and the source is in place
C31_FailedCopyKeepsSource ==
  /\ done.verb = "RENAME"
  /\ done.status = "FAILURE"
  /\ Len(done.calls) = 1
  /\ Has(store, done.fullname)
  /\ ~Has(store, done.fullnameNew)

(* ------------------------------------------------------------------ *)
(* Specification of handle use                                         *)
(* ------------------------------------------------------------------ *)

\* the requests a session sends
MaxHandleRequests == 4

\* the flags a client opens a file with
OpenFlagSets == {{"READ"}, {"WRITE"}, {"READ", "WRITE"}}

\* a client opens /a.pdf and the root directory and uses whatever handle
\* value it likes with READ, WRITE, READDIR and CLOSE
NextHandles ==
  \/ Listen
  \/ \E c \in Conns : Connection(c)
  \/ \E c \in Conns : Authentication(c, "password", strBob, strPw, TRUE, 2)
  \/ \E c \in Conns : Ready(c)
  \/ \E c \in Conns : Sftp(c)
  \/ \E c \in Conns, f \in OpenFlagSets :
       Within(MaxHandleRequests, c) /\ OPEN(c, PathFile, f)
  \/ \E c \in Conns, i \in 1..MaxInFlight : OpenChecked(c, i, TRUE)
  \/ \E c \in Conns, i \in 1..MaxInFlight : OpenReadListed(c, i, TRUE, FALSE)
  \/ \E c \in Conns : Within(MaxHandleRequests, c) /\ OPENDIR(c, Root)
  \/ \E c \in Conns, i \in 1..MaxInFlight : OpenDirListed(c, i, TRUE, 2)
  \/ \E c \in Conns, h \in Handles :
       Within(MaxHandleRequests, c) /\ READ(c, h, 0, 1)
  \/ \E c \in Conns, i \in 1..MaxInFlight, ok \in BOOLEAN : ReadGot(c, i, ok)
  \/ \E c \in Conns, h \in Handles :
       Within(MaxHandleRequests, c) /\ WRITE(c, h, 0, <<"x">>, FALSE)
  \/ \E c \in Conns, h \in Handles :
       Within(MaxHandleRequests, c) /\ READDIR(c, h)
  \/ \E c \in Conns, h \in Handles :
       Within(MaxHandleRequests, c) /\ CLOSE(c, h)
  \/ \E c \in Conns, i \in 1..MaxInFlight : ClosePoll(c, i)
  \/ \E c \in Conns, h \in Handles : UploadEnd(c, h)
  \/ \E c \in Conns, h \in Handles, ok \in BOOLEAN : UploadPutResolved(c, h, ok)

SpecHandles == InitDir /\ [][NextHandles]_vars

(* ------------------------------------------------------------------ *)
(* Properties of handle use                                            *)
(* ------------------------------------------------------------------ *)

\* the request the step received: answered or thrown at once, or the newest
\* that waits
Received ==
  IF done' # NoReq THEN done' ELSE reqs'[step'.conn][Len(reqs'[step'.conn])]

\* the handle the request names is unknown to the session or of another kind
\* than the verb needs (a handle opened with READ and WRITE was set up for
\* reading)
WrongHandle(c, verb, h) ==
  LET files == clients[c].openFiles
      dirs == clients[c].openDirs
  IN  CASE verb = "READ" -> ~Has(files, h) \/ "READ" \notin files[h].flags
        [] verb = "WRITE" ->
             ~Has(files, h) \/ "WRITE" \notin files[h].flags \/ "READ" \in files[h].flags
        [] verb = "READDIR" -> ~Has(dirs, h)
        [] verb = "CLOSE" -> ~Has(files, h) /\ ~Has(dirs, h)
        [] OTHER -> FALSE

\* C32: a READ on a handle that was not opened for reading, a WRITE on a
\* handle that is not a file-write handle (one opened with READ and WRITE
\* included), a READDIR on a file handle, and a READ, WRITE, READDIR or CLOSE
\* on an unknown or freed handle are answered FAILURE by the handler itself
\* (no exception leaves it) and change neither the handle tables, the
\* uploads, the waiting requests nor the bucket.
C32_WrongHandleFails ==
  [][(/\ step'.name \in {"READ", "WRITE", "READDIR", "CLOSE"}
      /\ WrongHandle(step'.conn, step'.name, Received.handle))
       => /\ done' # NoReq
          /\ done'.pc = "answered"
          /\ done'.status = "FAILURE"
          /\ UNCHANGED <<clients, uploads, reqs, store>>
    ]_vars

(* ------------------------------------------------------------------ *)
(* Properties of store-call failures                                   *)
(* ------------------------------------------------------------------ *)

\* the request answered by the step met a failing store call: a failing LIST
\* or GET is marked on the request; REMOVE and RENAME answer FAILURE only
\* when their DELETE or COPY failed
StoreCallFailed(r) ==
  /\ r # NoReq
  /\ r.verb # "authentication"
  /\ r.pc = "answered"
  /\ \/ r.storeError
     \/ r.verb \in {"REMOVE", "RENAME"} /\ r.status = "FAILURE" /\ r.calls # <<>>

\* C33: a request one of whose store calls failed is answered FAILURE, the
\* failing call is its last one (no retry), and the same step announces the
\* failure with an event on the event bus.
C33_StoreFailureAnnounced ==
  [][StoreCallFailed(done')
       => /\ done'.status = "FAILURE"
          /\ Len(done'.calls) <= 2
          /\ emitted' # <<>>
    ]_vars

(* ------------------------------------------------------------------ *)
(* Specification of two sessions                                       *)
(* ------------------------------------------------------------------ *)

\* sessions open at the same time, and the requests each sends
MaxSessions == 2
MaxSessionRequests == 3
Sessions == 1..MaxSessions

\* the state after construction, with room for MaxSessions connections
InitSessions ==
  /\ accessControl \in AccessControlModules
  /\ createDefaultSubdirs = TRUE
  /\ window = MaxPending
  /\ store = WithObjects(HomeFile)
  /\ lastUploadTime = 0
  /\ userConnections = EmptyMap
  /\ idleTimers = EmptyMap
  /\ timers = {}
  /\ now = IdleTimeoutMs
  /\ ticks = 0
  /\ ssh = "null"
  /\ clients = [c \in Sessions |-> InitClient]
  /\ reqs = [c \in Sessions |-> <<>>]
  /\ uploads = EmptyMap
  /\ done = NoReq
  /\ step = [name |-> "constructor", conn |-> 0]
  /\ emitted = <<>>
  /\ reqid = [c \in Sessions |-> 0]

\* every session opens its first handle, which has the value 0 in each
NextSessions ==
  \/ Listen
  \/ \E c \in Sessions : Connection(c)
  \/ \E c \in Sessions : Authentication(c, "password", strBob, strPw, TRUE, 2)
  \/ \E c \in Sessions : Ready(c)
  \/ \E c \in Sessions : Sftp(c)
  \/ \E c \in Sessions, f \in {{"READ"}, {"WRITE"}} :
       Within(MaxSessionRequests, c) /\ OPEN(c, PathFile, f)
  \/ \E c \in Sessions : OpenChecked(c, 1, TRUE)
  \/ \E c \in Sessions : OpenReadListed(c, 1, TRUE, FALSE)
  \/ \E c \in Sessions : Within(MaxSessionRequests, c) /\ OPENDIR(c, Root)
  \/ \E c \in Sessions : OpenDirListed(c, 1, TRUE, 2)
  \/ \E c \in Sessions : Within(MaxSessionRequests, c) /\ READ(c, 0, 0, 1)
  \/ \E c \in Sessions : ReadGot(c, 1, TRUE)
  \/ \E c \in Sessions : Within(MaxSessionRequests, c) /\ WRITE(c, 0, 0, <<"x">>, FALSE)
  \/ \E c \in Sessions : Within(MaxSessionRequests, c) /\ READDIR(c, 0)
  \/ \E c \in Sessions : Within(MaxSessionRequests, c) /\ CLOSE(c, 0)
  \/ \E c \in Sessions : ClosePoll(c, 1)
  \/ \E c \in Sessions : UploadEnd(c, 0)
  \/ \E c \in Sessions, ok \in BOOLEAN : UploadPutResolved(c, 0, ok)

SpecSessions == InitSessions /\ [][NextSessions]_vars

\* the upload task of handle h of session d, if there is one
UploadOf(ups, d, h) == IF Has(ups, <<d, h>>) THEN <<ups[<<d, h>>]>> ELSE <<>>

\* C34: a step of one session (a READ, WRITE, READDIR or CLOSE with a handle
\* value that another session holds too, and every other step) leaves the
\* handle tables, the upload streams and the waiting requests of every other
\* session as they were.
C34_HandleTablesPrivate ==
  [][\A d \in DOMAIN clients :
       d # step'.conn
         => /\ clients'[d].openFiles = clients[d].openFiles
            /\ clients'[d].openDirs = clients[d].openDirs
            /\ clients'[d].handleCount = clients[d].handleCount
            /\ reqs'[d] = reqs[d]
            /\ \A h \in Handles : UploadOf(uploads', d, h) = UploadOf(uploads, d, h)
    ]_vars

\* session 2 wrote to its handle 0 while session 1 holds a write handle 0
\* of its own, which received nothing
C34_WriteReachesOwnHandleOnly ==
  /\ done # NoReq
  /\ done.verb = "WRITE"
  /\ done.conn = 2
  /\ done.handle = 0
  /\ done.status = "OK"
  /\ Has(clients[1].openFiles, 0)
  /\ Has(uploads, <<1, 0>>)
  /\ uploads[<<1, 0>>].wrote = <<>>
  /\ uploads[<<2, 0>>].wrote # <<>>

(* ------------------------------------------------------------------ *)
(* Properties of CLOSE while an upload is pending                      *)
(* ------------------------------------------------------------------ *)

\* C35: a CLOSE that waits for the upload of its handle is answered when its
\* poll sees the upload settled: the poll never ends without a status
\* response, also when another CLOSE of the same handle waits as well.
C35_WaitingCloseAnswered ==
  [][step'.name = "ClosePoll"
       => /\ done' # NoReq
          /\ done'.verb = "CLOSE"
          /\ done'.pc = "answered"
          /\ done'.status \in {"OK", "FAILURE"}
    ]_vars

(* ------------------------------------------------------------------ *)
(* Specification of uploads and the end of the session                 *)
(* ------------------------------------------------------------------ *)

MaxAbandonRequests == 4

\* one session writes to handles, closes them or not, and ends
NextAbandon ==
  \/ Listen
  \/ \E c \in Conns : Connection(c)
  \/ \E c \in Conns : Authentication(c, "password", strBob, strPw, TRUE, 2)
  \/ \E c \in Conns : Ready(c)
  \/ \E c \in Conns : Sftp(c)
  \/ \E c \in Conns, e \in DisconnectEvents : Disconnect(c, e)
  \/ \E c \in Conns, p \in UploadPaths :
       Within(MaxAbandonRequests, c) /\ OPEN(c, p, {"WRITE"})
  \/ \E c \in Conns, i \in 1..MaxPending, ok \in BOOLEAN : OpenChecked(c, i, ok)
  \/ \E c \in Conns, h \in Handles, w \in WriteInputs, x \in BOOLEAN :
       Within(MaxAbandonRequests, c) /\ WRITE(c, h, w.offset, w.data, x)
  \/ \E c \in Conns, h \in Handles :
       Within(MaxAbandonRequests, c) /\ CLOSE(c, h)
  \/ \E c \in Conns, i \in 1..MaxPending : ClosePoll(c, i)
  \/ \E c \in Conns, h \in Handles : UploadEnd(c, h)
  \/ \E c \in Conns, h \in Handles, ok \in BOOLEAN : UploadPutResolved(c, h, ok)

SpecAbandon == Init /\ [][NextAbandon]_vars

\* C36: the upload of a write handle issues at most one PUT; its stream leaves
\* the open state only in the step that receives a CLOSE for that handle in
\* its session, and the PUT is issued only for a stream that left it; an
\* upload whose session ended with the stream open stays as it is; and a
\* settled upload (stored, rejected or failed) and the settled flags of its
\* handle never change again.
C36_OnePutAfterClose ==
  [][\A k \in DOMAIN uploads' :
       /\ uploads'[k].puts <= 1
       /\ ~Has(uploads, k) => uploads'[k].pc = "open" /\ uploads'[k].puts = 0
       /\ Has(uploads, k) =>
            /\ (uploads[k].pc = "open" /\ uploads'[k].pc # "open")
                 => /\ step'.name = "CLOSE"
                    /\ step'.conn = k[1]
                    /\ Received.handle = k[2]
                    /\ uploads'[k].pc = "ending"
            /\ uploads'[k].puts > uploads[k].puts => uploads[k].pc = "ending"
            /\ (uploads[k].pc = "open" /\ clients[k[1]].phase # "sftp")
                 => uploads'[k] = uploads[k]
            /\ uploads[k].result # "none"
                 => /\ uploads'[k].result = uploads[k].result
                    /\ uploads'[k].puts = uploads[k].puts
            /\ (/\ Has(clients[k[1]].openFiles, k[2])
                /\ Has(clients'[k[1]].openFiles, k[2])
                /\ \/ clients[k[1]].openFiles[k[2]].uploadComplete
                   \/ clients[k[1]].openFiles[k[2]].uploadError # "null")
                 => /\ clients'[k[1]].openFiles[k[2]].uploadComplete
                         = clients[k[1]].openFiles[k[2]].uploadComplete
                    /\ clients'[k[1]].openFiles[k[2]].uploadError
                         = clients[k[1]].openFiles[k[2]].uploadError
    ]_vars

\* the session ended while handle 0 had received data and no CLOSE: nothing
\* was put
C36_AbandonedHandleNeverPut ==
  /\ clients[1].phase = "closed"
  /\ Has(uploads, <<1, 0>>)
  /\ uploads[<<1, 0>>].pc = "open"
  /\ uploads[<<1, 0>>].wrote # <<>>
  /\ uploads[<<1, 0>>].puts = 0
  /\ \A k \in DOMAIN store : store[k].by.kind # "upload"

(* ------------------------------------------------------------------ *)
(* Specification of the file kinds under ledgers and invoices          *)
(* ------------------------------------------------------------------ *)

MaxKindRequests == 3
KindPaths == {PathFile, PathLedgersText, PathLedgersFile}

\* one session uploads, renames and removes files at its root and in ledgers
NextKinds ==
  \/ Listen
  \/ \E c \in Conns : Connection(c)
  \/ \E c \in Conns : Authentication(c, "password", strBob, strPw, TRUE, 2)
  \/ \E c \in Conns : Ready(c)
  \/ \E c \in Conns : Sftp(c)
  \/ \E c \in Conns, p \in KindPaths :
       Within(MaxKindRequests, c) /\ OPEN(c, p, {"WRITE"})
  \/ \E c \in Conns, i \in 1..MaxInFlight : OpenChecked(c, i, TRUE)
  \/ \E c \in Conns, h \in Handles :
       Within(MaxKindRequests, c) /\ WRITE(c, h, 0, <<"x">>, FALSE)
  \/ \E c \in Conns, h \in Handles :
       Within(MaxKindRequests, c) /\ CLOSE(c, h)
  \/ \E c \in Conns, i \in 1..MaxInFlight : ClosePoll(c, i)
  \/ \E c \in Conns, h \in Handles : UploadEnd(c, h)
  \/ \E c \in Conns, h \in Handles, ok \in BOOLEAN : UploadPutResolved(c, h, ok)
  \/ \E c \in Conns, p \in KindPaths, q \in KindPaths :
       Within(MaxKindRequests, c) /\ RENAME(c, p, q)
  \/ \E c \in Conns, i \in 1..MaxInFlight, ok \in BOOLEAN : RenameCopied(c, i, ok)
  \/ \E c \in Conns, i \in 1..MaxInFlight, ok \in BOOLEAN : RenameDeleted(c, i, ok)
  \/ \E c \in Conns, p \in KindPaths :
       Within(MaxKindRequests, c) /\ REMOVE(c, p)
  \/ \E c \in Conns, i \in 1..MaxInFlight, ok \in BOOLEAN : RemoveDeleted(c, i, ok)

SpecKinds == InitDir /\ [][NextKinds]_vars

\* the key lies under a ledgers or invoices directory of a user
UnderLedgersOrInvoices(k) ==
  /\ StartsWith(k, userBasePath \o Root)
  /\ \/ Includes(ToLowerCase(k), SlashLedgersSlash)
     \/ Includes(ToLowerCase(k), SlashInvoicesSlash)

\* C37: no object that a client request created (an upload or a rename) has a
\* key under a user's ledgers or invoices directory that neither ends in .pdf
\* nor is a .directory marker.
C37_OnlyPdfUnderLedgers ==
  \A k \in DOMAIN store :
    (store[k].by.kind \in {"upload", "rename"} /\ UnderLedgersOrInvoices(k))
      => \/ EndsWith(ToLowerCase(k), dotPdf)
         \/ EndsWith(k, DirectoryMarker)

(* ------------------------------------------------------------------ *)
(* Specification of two connections of one user                        *)
(* ------------------------------------------------------------------ *)

\* the same user logs in on every connection; connections end in any order
NextPair ==
  \/ Listen
  \/ \E c \in Sessions : Connection(c)
  \/ \E c \in Sessions : Authentication(c, "password", strBob, strPw, TRUE, 2)
  \/ \E c \in Sessions : Ready(c)
  \/ \E c \in Sessions : Sftp(c)
  \/ \E c \in Sessions, e \in DisconnectEvents : Disconnect(c, e)

SpecPair == InitSessions /\ [][NextPair]_vars

\* C38: a user with a connected client whose login completed ('ready' was
\* delivered and no disconnect event yet) is tracked and has an idle timer
\* armed, whatever happened to the other connections of the same user.
C38_ConnectedUserTracked ==
  \A c \in DOMAIN clients :
    clients[c].phase \in {"ready", "sftp"}
      => /\ Has(userConnections, clients[c].user)
         /\ Has(idleTimers, clients[c].user)

(* ------------------------------------------------------------------ *)
(* Properties of disconnectAllUsers and stop                           *)
(* ------------------------------------------------------------------ *)

\* C39: when disconnectAllUsers() or stop() has returned, no timeout that
\* would announce an idle user is armed any more.
C39_NoTimerArmedAfterStop ==
  [][step'.name \in {"disconnectAllUsers", "stop"}
       => /\ timers' = {}
          /\ idleTimers' = EmptyMap
    ]_vars

(* ------------------------------------------------------------------ *)
(* Specification of credentials whose names hold an underscore         *)
(* ------------------------------------------------------------------ *)

strBobX == strBob \o <<"_", "x">>
strXPw == <<"x", "_">> \o strPw

\* the (username, password) pairs the operator registered: one object
\* auth/<username>_<password> each
Registered == {[username |-> strBob, password |-> strXPw]}

InitCredentials ==
  /\ accessControl \in AccessControlModules
  /\ createDefaultSubdirs \in BOOLEAN
  /\ window = MaxPending
  /\ store = [k \in {authKey(r.username, r.password) : r \in Registered} |->
                [body |-> <<"1">>, by |-> Origin("registry", 0, 0)]]
  /\ lastUploadTime = 0
  /\ userConnections = EmptyMap
  /\ idleTimers = EmptyMap
  /\ timers = {}
  /\ now = IdleTimeoutMs
  /\ ticks = 0
  /\ ssh = "null"
  /\ clients = [c \in Conns |-> InitClient]
  /\ reqs = [c \in Conns |-> <<>>]
  /\ uploads = EmptyMap
  /\ done = NoReq
  /\ step = [name |-> "constructor", conn |-> 0]
  /\ emitted = <<>>
  /\ reqid = [c \in Conns |-> 0]

CredentialUsernames == {strBob, strBobX}
CredentialPasswords == {strPw, strXPw}

NextCredentials ==
  \/ Listen
  \/ \E c \in Conns : Connection(c)
  \/ \E c \in Conns, u \in CredentialUsernames, p \in CredentialPasswords,
        headOk \in BOOLEAN, nPut \in 0..Len(defaultSubdirectories) :
       Authentication(c, "password", u, p, headOk, nPut)
  \/ \E c \in Conns : Ready(c)
  \/ \E c \in Conns : Sftp(c)
  \/ \E c \in Conns, e \in DisconnectEvents : Disconnect(c, e)

SpecCredentials == InitCredentials /\ [][NextCredentials]_vars

\* C40: an authentication is accepted only for a pair (username, password)
\* that was registered as that pair, and the session it opens is the one of
\* the registered user.
C40_AcceptedPairRegistered ==
  [][(done' # NoReq /\ done'.verb = "authentication" /\ done'.status = "accept")
       => /\ [username |-> done'.username, password |-> done'.password] \in Registered
          /\ clients'[done'.conn].user \in {r.username : r \in Registered}
    ]_vars

=============================================================================
